---- MODULE Spec2Model ----
(***************************************************************************)
(* Model of the issue manager: the interactive shell (issue_manager.py on  *)
(* top of models.Issue) and the record store of database.py.               *)
(*                                                                         *)
(* Text is a sequence of one-character strings.  Python's None is the      *)
(* value None below, which is no text the alphabet can spell.              *)
(***************************************************************************)
EXTENDS Integers, Sequences, FiniteSets, TLC

VARIABLES
    issues,        \* rows of the table made by issue_manager.create_table
    archive_file,  \* ARCHIVE_FILE: [exists, rows]
    all_issues_file, \* ALL_ISSUES_FILE: [exists, rows]
    db_issues,     \* rows of the table made by database.initialize_database
    db_sequence,   \* sqlite_sequence of that AUTOINCREMENT table
    db_checks,     \* whether that table carries the CHECK (length(...) <= 140) constraints
    db_schema,     \* the other tables of the database file, by name
    db_open,       \* connections to the database file that are open
    backups,       \* the files of BACKUP_DIR: path |-> copy of the database file
    writers,       \* callers inside update_issue: what each has read, and the order of events
    clock,         \* the wall clock / CURRENT_TIMESTAMP, in seconds
    ret            \* the last call and what it returned

vars == <<issues, archive_file, all_issues_file, db_issues, db_sequence, db_checks, db_schema,
          db_open, backups, writers, clock, ret>>

(***************************************************************************)
(* Program constants                                                       *)
(***************************************************************************)
MAX_ISSUES == 7
TITLE_MAX == 70
DESCRIPTION_MAX == 140
RESOLUTION_MAX == 140
TAGS_MAX == 3
DB_TEXT_MAX == 140
DB_TEXT_CUT == 137

(***************************************************************************)
(* Bounds of the model                                                     *)
(***************************************************************************)
MaxRows == 2        \* rows of the store in Spec
MaxCapEditId == 1   \* ids within reach of edit, archive and delete in SpecCap
MaxTextRows == 1    \* rows of the store in the text specifications
MaxTagInput == 4    \* length of a typed tag line
MaxTruncLen == 7    \* length of a text handed to truncate_text
MaxTruncLimit == 6  \* max_length handed to truncate_text
MaxDbId == 1        \* ids the AUTOINCREMENT table hands out
MaxClock == 1       \* seconds the clock advances
MaxLegacyRows == 2  \* rows of a table made before the length constraints
MaxLegacyId == 1    \* ids within reach of update_issue in SpecLegacy
MaxTxnLen == 2      \* statements of a transaction block or script, rows of a batch
MaxTxnId == 3       \* ids the table hands out in SpecTxn
MaxSearchId == 2    \* ids the table hands out in SpecSearch
MaxStatsId == 2     \* ids the table hands out in SpecStats
MaxExportRows == 2  \* rows of the store in SpecExport
MaxLoaded == 3      \* length of a list of loaded issues handed to the export
MaxBackupId == 2    \* ids the table hands out in SpecBackup
MaxOpen == 2        \* connections left open that are followed
MaxRaceId == 1      \* ids the two writers of SpecRace aim at
MaxAppend == 2      \* issues handed to one appending export
MaxArchiveRows == 7 \* lines of the archive file that are followed

(***************************************************************************)
(* Text                                                                    *)
(***************************************************************************)
None == <<"<None>">>

Rep(c, n) == [i \in 1..n |-> c]

Y == <<"y">>
N == <<"n">>
OPEN == <<"O", "p", "e", "n">>
IN_PROGRESS == <<"I", "n", " ", "P", "r", "o", "g", "r", "e", "s", "s">>
RESOLVED == <<"R", "e", "s", "o", "l", "v", "e", "d">>
ARCHIVED == <<"A", "r", "c", "h", "i", "v", "e", "d">>
NONE_TEXT == <<"N", "o", "n", "e">>
ELLIPSIS == <<".", ".", ".">>

\* bool(x) of a text or None
Truthy(s) == s # None /\ s # <<>>

\* s[:n] for any integer n (a negative n counts from the end)
Prefix(s, n) ==
    LET stop == IF n >= 0 THEN (IF n < Len(s) THEN n ELSE Len(s))
                ELSE (IF Len(s) + n > 0 THEN Len(s) + n ELSE 0)
    IN SubSeq(s, 1, stop)

IsSpace(c) == c \in {" ", "\t"}

RECURSIVE LStrip(_)
LStrip(s) == IF s # <<>> /\ IsSpace(Head(s)) THEN LStrip(Tail(s)) ELSE s

RECURSIVE RStrip(_)
RStrip(s) ==
    IF s # <<>> /\ IsSpace(s[Len(s)]) THEN RStrip(SubSeq(s, 1, Len(s) - 1)) ELSE s

\* str.strip()
Strip(s) == RStrip(LStrip(s))

LowerChar(c) ==
    CASE c = "Y" -> "y" [] c = "N" -> "n" [] c = "O" -> "o" [] c = "I" -> "i"
      [] c = "P" -> "p" [] c = "R" -> "r" [] c = "A" -> "a" [] OTHER -> c

\* str.lower()
Lower(s) == [i \in 1..Len(s) |-> LowerChar(s[i])]

StartsWith(s, p) == Len(s) >= Len(p) /\ SubSeq(s, 1, Len(p)) = p

EndsWith(s, p) == Len(s) >= Len(p) /\ SubSeq(s, Len(s) - Len(p) + 1, Len(s)) = p

\* str.split(sep) for a non-empty separator: always at least one piece
RECURSIVE SplitAcc(_, _, _)
SplitAcc(s, sep, piece) ==
    IF s = <<>> THEN <<piece>>
    ELSE IF StartsWith(s, sep)
         THEN <<piece>> \o SplitAcc(SubSeq(s, Len(sep) + 1, Len(s)), sep, <<>>)
         ELSE SplitAcc(Tail(s), sep, Append(piece, Head(s)))

Split(s, sep) == SplitAcc(s, sep, <<>>)

\* sep.join(parts)
RECURSIVE Join(_, _)
Join(parts, sep) ==
    IF parts = <<>> THEN <<>>
    ELSE IF Len(parts) = 1 THEN parts[1]
         ELSE parts[1] \o sep \o Join(Tail(parts), sep)

\* every text of at most n characters over an alphabet
RECURSIVE Texts(_, _)
Texts(alphabet, n) ==
    IF n = 0 THEN {<<>>}
    ELSE LET shorter == Texts(alphabet, n - 1)
         IN shorter \cup {Append(t, c) : t \in {x \in shorter : Len(x) = n - 1},
                                         c \in alphabet}

COMMA == <<",">>
COMMA_SPACE == <<",", " ">>

\* issue_manager.truncate_text
truncate_text_no_ellipsis(text, max_length) ==
    IF Truthy(text) /\ Len(text) > max_length
    THEN Prefix(text, max_length)
    ELSE text

truncate_text(text, max_length) ==
    IF Truthy(text) /\ Len(text) > max_length
    THEN Prefix(text, max_length - 3) \o ELLIPSIS
    ELSE text

(***************************************************************************)
(* models.Issue: the object and its four storage methods                   *)
(***************************************************************************)

\* Issue.__init__
NewIssue(title, description, status, resolution, tags, now) ==
    [id |-> 0, title |-> title, description |-> description, status |-> status,
     resolution |-> resolution, date |-> now, modified |-> now, tags |-> tags]

\* one row of SELECT * as load_all rebuilds it
RowToIssue(row) ==
    [id |-> row.id, title |-> row.title, description |-> row.description,
     status |-> row.status, resolution |-> row.resolution, date |-> row.date,
     modified |-> row.modified,
     tags |-> IF Truthy(row.tags) THEN Split(row.tags, COMMA_SPACE) ELSE <<>>]

\* Issue.load_all
load_all(tbl) == [i \in 1..Len(tbl) |-> RowToIssue(tbl[i])]

\* the rowid an INTEGER PRIMARY KEY column (no AUTOINCREMENT) gives a new row
NextRowid(tbl) == IF tbl = <<>> THEN 1 ELSE tbl[Len(tbl)].id + 1

\* Issue.save
save(tbl, issue) ==
    Append(tbl,
        [id |-> NextRowid(tbl), title |-> issue.title,
         description |-> issue.description, status |-> issue.status,
         resolution |-> issue.resolution, date |-> issue.date,
         modified |-> issue.modified, tags |-> Join(issue.tags, COMMA_SPACE)])

\* Issue.update
update(tbl, issue, now) ==
    [i \in 1..Len(tbl) |->
        IF tbl[i].id = issue.id
        THEN [tbl[i] EXCEPT !.title = issue.title,
                            !.description = issue.description,
                            !.status = issue.status,
                            !.resolution = issue.resolution,
                            !.modified = now,
                            !.tags = Join(issue.tags, COMMA_SPACE)]
        ELSE tbl[i]]

\* Issue.delete
delete(tbl, issue_id) == SelectSeq(tbl, LAMBDA row : row.id # issue_id)

(***************************************************************************)
(* issue_manager: helpers of the shell operations                          *)
(***************************************************************************)

\* position of the first issue with this id in a loaded list, 0 when none
Find(loaded, issue_id) ==
    IF \E i \in 1..Len(loaded) : loaded[i].id = issue_id
    THEN CHOOSE i \in 1..Len(loaded) :
            /\ loaded[i].id = issue_id
            /\ \A j \in 1..(i - 1) : loaded[j].id # issue_id
    ELSE 0

NonArchived(loaded) == SelectSeq(loaded, LAMBDA issue : issue.status # ARCHIVED)

\* add_issue: the cap test
AtCapacity_off_by_one(loaded) == Len(NonArchived(loaded)) > MAX_ISSUES

AtCapacity(loaded) == Len(NonArchived(loaded)) >= MAX_ISSUES

\* add_issue / edit_issue: the title, description and resolution cuts
Cut(text, limit) == IF Len(text) > limit THEN Prefix(text, limit) ELSE text

\* add_issue / edit_issue: a typed tag line to a list of tags
ParseTags(tags_input) ==
    LET pieces == Split(tags_input, COMMA)
    IN [i \in 1..Len(pieces) |-> Strip(pieces[i])]

LimitTags_four(tags) == IF Len(tags) > TAGS_MAX THEN SubSeq(tags, 1, TAGS_MAX + 1) ELSE tags

LimitTags(tags) == IF Len(tags) > TAGS_MAX THEN SubSeq(tags, 1, TAGS_MAX) ELSE tags

\* edit_issue: the typed status to a status, the current one when not understood
ParseStatus(status_input, current) ==
    LET typed == Lower(Strip(status_input))
    IN CASE typed = <<"o">> -> OPEN
         [] typed = <<"i">> -> IN_PROGRESS
         [] typed = <<"r">> -> RESOLVED
         [] typed = <<"a">> -> ARCHIVED
         [] typed = Lower(OPEN) -> OPEN
         [] typed = Lower(IN_PROGRESS) -> IN_PROGRESS
         [] typed = Lower(RESOLVED) -> RESOLVED
         [] typed = Lower(ARCHIVED) -> ARCHIVED
         [] OTHER -> current

\* the guards of edit_issue, archive_issue and delete_issue
CanEdit_any(issue) == TRUE

CanEdit(issue) == issue.status # ARCHIVED

CanArchive(issue) == issue.status = RESOLVED

CanDelete_any(issue) == TRUE

CanDelete(issue) == issue.status = OPEN

Confirmed_any(confirm_input) == TRUE

Confirmed(confirm_input) == Lower(Strip(confirm_input)) = Y

\* issue_manager.export_to_csv: the file after the call
HEADER == [kind |-> "header"]

DataRow(issue) == [kind |-> "data", issue |-> issue]

export_to_csv_overwrite(file, data, append) ==
    [exists |-> TRUE,
     rows |-> <<HEADER>> \o [i \in 1..Len(data) |-> DataRow(data[i])]]

\* export_to_csv: whether the header row is to be written
write_header_always(file, append) == TRUE

write_header(file, append) ==
    LET file_exists == file.exists
        file_is_empty == file_exists /\ file.rows = <<>>
    IN ~file_exists \/ file_is_empty \/ ~append

\* export_to_csv raises IndexError at data['issues'][0], the file already opened
export_raises(file, data, append) == write_header(file, append) /\ data = <<>>

export_to_csv(file, data, append) ==
    LET before == IF append /\ file.exists THEN file.rows ELSE <<>>
        header == IF write_header(file, append) /\ data # <<>> THEN <<HEADER>> ELSE <<>>
    IN [exists |-> TRUE,
        rows |-> before \o header \o [i \in 1..Len(data) |-> DataRow(data[i])]]

Returned(op, issue_id, value) == [op |-> op, id |-> issue_id, value |-> value]

\* an id typed at a prompt: int() raises ValueError unless it spells a number
BadId == [valid |-> FALSE, n |-> 0]
TypedId(n) == [valid |-> TRUE, n |-> n]

(***************************************************************************)
(* issue_manager: the four shell operations.  Each action is one call,     *)
(* with everything the operator types as its parameters.                   *)
(***************************************************************************)

\* a shell operation's effect on the issues table and what it returns
ShellStep(op, r) ==
    /\ issues' = r.issues
    /\ ret' = Returned(op, r.id, r.value)
    /\ UNCHANGED <<archive_file, all_issues_file, db_issues, db_sequence, db_checks, db_schema, clock,
                   db_open, backups, writers>>

\* add_issue from the confirmation prompt on
add_confirmed(tbl, new_issue, saved) ==
    [issues |-> IF saved THEN save(tbl, new_issue) ELSE tbl,
     id |-> IF saved THEN NextRowid(tbl) ELSE 0,
     value |-> saved]

\* add_issue once the three prompts are answered and stripped
add_typed(tbl, now, title, description, tags_input, confirm_in) ==
    add_confirmed(tbl,
                  NewIssue(Cut(title, TITLE_MAX), Cut(description, DESCRIPTION_MAX), OPEN, None,
                           LimitTags(IF tags_input # <<>> THEN ParseTags(tags_input) ELSE <<>>),
                           now),
                  /\ ~AtCapacity(load_all(tbl))
                  /\ title # <<>>
                  /\ description # <<>>
                  /\ Confirmed(confirm_in))

\* add_issue on the table tbl at time now: the table after it and what it returns
add_issue_result(tbl, now, title_in, description_in, tags_in, confirm_in) ==
    add_typed(tbl, now, Strip(title_in), Strip(description_in), Strip(tags_in), confirm_in)

add_issue(title_in, description_in, tags_in, confirm_in) ==
    ShellStep("add_issue",
              add_issue_result(issues, clock, title_in, description_in, tags_in, confirm_in))

\* edit_issue: the loaded issue after the prompts for its fields
edit_fields_note_as_typed(issue, now, new_title, new_description, new_tags_input, new_status, resolution) ==
    [issue EXCEPT
        !.title = IF new_title # <<>> THEN Cut(new_title, TITLE_MAX) ELSE @,
        !.description = IF new_description # <<>>
                        THEN Cut(new_description, DESCRIPTION_MAX) ELSE @,
        !.tags = IF new_tags_input # <<>>
                 THEN LimitTags(ParseTags(new_tags_input)) ELSE @,
        !.status = new_status,
        !.resolution = IF new_status # issue.status /\ new_status = RESOLVED
                       THEN resolution
                       ELSE @,
        !.modified = now]

edit_fields(issue, now, new_title, new_description, new_tags_input, new_status, resolution) ==
    [issue EXCEPT
        !.title = IF new_title # <<>> THEN Cut(new_title, TITLE_MAX) ELSE @,
        !.description = IF new_description # <<>>
                        THEN Cut(new_description, DESCRIPTION_MAX) ELSE @,
        !.tags = IF new_tags_input # <<>>
                 THEN LimitTags(ParseTags(new_tags_input)) ELSE @,
        !.status = new_status,
        !.resolution = IF new_status # issue.status /\ new_status = RESOLVED
                       THEN (IF resolution # <<>> THEN resolution ELSE NONE_TEXT)
                       ELSE @,
        !.modified = now]

\* the issue a typed id names in the loaded list, NotFound when there is none
NotFound == [found |-> FALSE]

At(loaded, i) == IF i # 0 THEN loaded[i] ELSE NotFound

Lookup(loaded, id_in) == At(loaded, IF id_in.valid THEN Find(loaded, id_in.n) ELSE 0)

\* edit_issue from the confirmation prompt on
edit_confirmed(tbl, edited, now, id_in, done) ==
    [issues |-> IF done THEN update(tbl, edited, now) ELSE tbl,
     id |-> IF id_in.valid THEN id_in.n ELSE -1,
     value |-> done]

\* edit_issue once the issue is looked up
edit_found(tbl, issue, now, id_in, title_in, description_in, tags_in, status_in, resolution_in, confirm_in) ==
    edit_confirmed(tbl,
                   edit_fields(issue, now, Strip(title_in), Strip(description_in),
                               Strip(tags_in), ParseStatus(status_in, issue.status),
                               Cut(Strip(resolution_in), RESOLUTION_MAX)),
                   now, id_in,
                   issue # NotFound /\ CanEdit(issue) /\ Confirmed(confirm_in))

\* edit_issue on the table tbl at time now: the table after it and what it returns
edit_issue_result(tbl, now, id_in, title_in, description_in, tags_in, status_in, resolution_in, confirm_in) ==
    edit_found(tbl, Lookup(load_all(tbl), id_in), now, id_in, title_in, description_in,
               tags_in, status_in, resolution_in, confirm_in)

edit_issue(id_in, title_in, description_in, tags_in, status_in, resolution_in, confirm_in) ==
    ShellStep("edit_issue",
              edit_issue_result(issues, clock, id_in, title_in, description_in, tags_in,
                                status_in, resolution_in, confirm_in))

\* archive_issue from the confirmation prompt on
archive_confirmed(tbl, file, archived, now, id_in, done) ==
    [issues |-> IF done THEN update(tbl, archived, now) ELSE tbl,
     archive_file |-> IF done THEN export_to_csv(file, <<archived>>, TRUE) ELSE file,
     id |-> IF id_in.valid THEN id_in.n ELSE -1,
     value |-> done]

\* archive_issue once the issue is looked up
archive_found(tbl, file, issue, now, id_in, confirm_in) ==
    archive_confirmed(tbl, file, [issue EXCEPT !.status = ARCHIVED, !.modified = now], now,
                      id_in, issue # NotFound /\ CanArchive(issue) /\ Confirmed(confirm_in))

\* archive_issue on the table tbl and the archive file at time now: the table
\* and the file after it and what it returns
archive_issue_result(tbl, file, now, id_in, confirm_in) ==
    archive_found(tbl, file, Lookup(load_all(tbl), id_in), now, id_in, confirm_in)

archive_issue(id_in, confirm_in) ==
    /\ \E r \in {archive_issue_result(issues, archive_file, clock, id_in, confirm_in)} :
          /\ issues' = r.issues
          /\ archive_file' = r.archive_file
          /\ ret' = Returned("archive_issue", r.id, r.value)
    /\ UNCHANGED <<all_issues_file, db_issues, db_sequence, db_checks, db_schema, clock,
                   db_open, backups, writers>>

\* delete_issue from the confirmation prompt on
delete_confirmed(tbl, asked, id_in, done) ==
    [issues |-> IF done THEN delete(tbl, id_in.n) ELSE tbl,
     id |-> IF asked /\ id_in.valid THEN id_in.n ELSE -1,
     value |-> done]

\* delete_issue once the open issues are listed and the issue is looked up
delete_found(tbl, asked, issue, id_in, confirm_in) ==
    delete_confirmed(tbl, asked, id_in,
                     asked /\ issue # NotFound /\ CanDelete(issue) /\ Confirmed(confirm_in))

\* delete_issue on the table tbl: the table after it and what it returns
delete_issue_result(tbl, id_in, confirm_in) ==
    delete_found(tbl, \E i \in 1..Len(tbl) : tbl[i].status = OPEN,
                 Lookup(load_all(tbl), id_in), id_in, confirm_in)

delete_issue(id_in, confirm_in) ==
    ShellStep("delete_issue", delete_issue_result(issues, id_in, confirm_in))

\* export_to_csv({"issues": data}, ARCHIVE_FILE, append=True)
append_to_archive(data) ==
    /\ ~export_raises(archive_file, data, TRUE)
    /\ archive_file' = export_to_csv(archive_file, data, TRUE)
    /\ ret' = Returned("export_to_csv", 0, Len(data))
    /\ UNCHANGED <<issues, all_issues_file, db_issues, db_sequence, db_checks, db_schema,
                   db_open, backups, writers, clock>>

(***************************************************************************)
(* issue_manager.export_all_issues, on the list Issue.load_all returned    *)
(***************************************************************************)
\* the ids of a list of issues in the order of their first occurrence
RECURSIVE FirstIds(_, _)
FirstIds(loaded, seen) ==
    IF loaded = <<>> THEN <<>>
    ELSE IF Head(loaded).id \in seen THEN FirstIds(Tail(loaded), seen)
    ELSE <<Head(loaded).id>> \o FirstIds(Tail(loaded), seen \cup {Head(loaded).id})

\* the last issue of the list with the id
LastWithId(loaded, issue_id) ==
    loaded[CHOOSE i \in 1..Len(loaded) :
              /\ loaded[i].id = issue_id
              /\ \A j \in i + 1..Len(loaded) : loaded[j].id # issue_id]

\* list({issue.id: issue for issue in issues}.values())
unique_issues_all(loaded) == loaded

unique_issues(loaded) ==
    [k \in 1..Len(FirstIds(loaded, {})) |-> LastWithId(loaded, FirstIds(loaded, {})[k])]

\* the file after the call, and whether the call returned rather than raised
export_all_issues_result(file, loaded) ==
    [file |-> export_to_csv(file, unique_issues(loaded), FALSE),
     value |-> ~export_raises(file, unique_issues(loaded), FALSE)]

export_loaded(loaded, r) ==
    /\ all_issues_file' = r.file
    /\ ret' = [op |-> "export_all_issues", id |-> 0, loaded |-> loaded, value |-> r.value]
    /\ UNCHANGED <<issues, archive_file, db_issues, db_sequence, db_checks, db_schema, clock,
                   db_open, backups, writers>>

export_all_issues(loaded) == export_loaded(loaded, export_all_issues_result(all_issues_file, loaded))

(***************************************************************************)
(* issue_manager.truncate_text as the shell calls it: the call and its     *)
(* value are what the caller is left with.                                 *)
(***************************************************************************)
Truncation(text, max_length, value) ==
    [op |-> "truncate_text", text |-> text, max_length |-> max_length, value |-> value]

TruncateText(text, max_length) ==
    /\ ret' = Truncation(text, max_length, truncate_text(text, max_length))
    /\ UNCHANGED <<issues, archive_file, all_issues_file, db_issues, db_sequence, db_checks,
                   db_schema, clock,
                   db_open, backups, writers>>

(***************************************************************************)
(* database: the issues table of the record store.  A row is a record of   *)
(* the seven columns; db_sequence is the AUTOINCREMENT counter, so an id   *)
(* is never handed out twice.  A fault is an sqlite3.Error raised inside    *)
(* the transaction, which rolls back.                                      *)
(***************************************************************************)

\* the CHECK(length(..) <= 140) of a column; NULL passes a CHECK
CheckLength(text) == text = None \/ Len(text) <= DB_TEXT_MAX

\* the constraints of the issues table on a row
ConstraintsHold(row) ==
    /\ row.title # None
    /\ CheckLength(row.title)
    /\ CheckLength(row.description)
    /\ CheckLength(row.resolution)

\* create_issue / update_issue: the length validation of the title
LimitTitle(title) ==
    IF Len(title) > DB_TEXT_MAX THEN Prefix(title, DB_TEXT_CUT) \o ELLIPSIS ELSE title

\* create_issue / update_issue: the length validation of description and resolution
LimitOptional(text) ==
    IF Truthy(text) /\ Len(text) > DB_TEXT_MAX
    THEN Prefix(text, DB_TEXT_CUT) \o ELLIPSIS
    ELSE text

\* execute_insert of one row: the table, the counter and the returned id after it
execute_insert(tbl, sequence, row, fault) ==
    IF fault \/ ~ConstraintsHold(row)
    THEN [issues |-> tbl, sequence |-> sequence, value |-> -1]
    ELSE [issues |-> Append(tbl, [row EXCEPT !.id = sequence + 1]),
          sequence |-> sequence + 1,
          value |-> sequence + 1]

\* the row create_issue inserts
create_row_updated_later(title, description, status, resolution, now) ==
    [id |-> 0, title |-> LimitTitle(title), description |-> LimitOptional(description),
     resolution |-> LimitOptional(resolution), status |-> status,
     created_at |-> now, updated_at |-> now + 1]

create_row(title, description, status, resolution, now) ==
    [id |-> 0, title |-> LimitTitle(title), description |-> LimitOptional(description),
     resolution |-> LimitOptional(resolution), status |-> status,
     created_at |-> now, updated_at |-> now]

\* create_issue on the table tbl at time now
create_issue_result(tbl, sequence, now, title, description, status, resolution, fault) ==
    execute_insert(tbl, sequence, create_row(title, description, status, resolution, now), fault)

create_issue(title, description, status, resolution, fault) ==
    /\ \E r \in {create_issue_result(db_issues, db_sequence, clock, title, description,
                                     status, resolution, fault)} :
          /\ db_issues' = r.issues
          /\ db_sequence' = r.sequence
          /\ ret' = Returned("create_issue", r.value, r.value)
    /\ UNCHANGED <<issues, archive_file, all_issues_file, db_checks, db_schema, clock,
                   db_open, backups, writers>>

\* the rows SELECT * FROM issues WHERE id = ? gives
RowsWithId(tbl, issue_id) == SelectSeq(tbl, LAMBDA row : row.id = issue_id)

\* execute_query of a SELECT: no rows when the query fails
execute_query(rows, fault) == IF fault THEN <<>> ELSE rows

\* dict(issues[0]) if issues else None
FirstOrNone(rows) == IF rows # <<>> THEN rows[1] ELSE NotFound

\* get_issue_by_id on the table tbl
get_issue_by_id_result(tbl, issue_id, fault) ==
    FirstOrNone(execute_query(RowsWithId(tbl, issue_id), fault))

\* a database operation that leaves the counter alone
DbStep(op, issue_id, r) ==
    /\ db_issues' = r.issues
    /\ ret' = Returned(op, issue_id, r.value)
    /\ UNCHANGED <<issues, archive_file, all_issues_file, db_sequence, db_checks, db_schema, clock,
                   db_open, backups, writers>>

get_issue_by_id(issue_id, fault) ==
    DbStep("get_issue_by_id", issue_id,
           [issues |-> db_issues, value |-> get_issue_by_id_result(db_issues, issue_id, fault)])

\* x if x is not None else y
Overlay_current(x, y) == y

Overlay(x, y) == IF x # None THEN x ELSE y

\* the UPDATE statement of update_issue
UpdateRow(tbl, issue_id, title, description, status, resolution, now) ==
    [i \in 1..Len(tbl) |->
        IF tbl[i].id = issue_id
        THEN [tbl[i] EXCEPT !.title = title, !.description = description,
                            !.status = status, !.resolution = resolution,
                            !.updated_at = now]
        ELSE tbl[i]]

\* update_issue from the length validation on
update_validated(tbl, now, issue_id, title, description, status, resolution, fault) ==
    [issues |-> IF fault
                   \/ ~CheckLength(title) \/ ~CheckLength(description) \/ ~CheckLength(resolution)
                THEN tbl
                ELSE UpdateRow(tbl, issue_id, title, description, status, resolution, now),
     value |-> TRUE]

\* update_issue once the current record is read
update_found_no_guard(tbl, current, now, issue_id, title, description, status, resolution, fault) ==
    [issues |-> tbl, value |-> TRUE]

update_found(tbl, current, now, issue_id, title, description, status, resolution, fault) ==
    IF current = NotFound
    THEN [issues |-> tbl, value |-> FALSE]
    ELSE update_validated(tbl, now, issue_id,
                          LimitTitle(Overlay(title, current.title)),
                          LimitOptional(Overlay(description, current.description)),
                          Overlay(status, current.status),
                          LimitOptional(Overlay(resolution, current.resolution)),
                          fault)

\* update_issue on the table tbl at time now; the read or the write may fail
update_issue_result(tbl, now, issue_id, title, description, status, resolution, read_fault, write_fault) ==
    update_found(tbl, get_issue_by_id_result(tbl, issue_id, read_fault), now, issue_id,
                 title, description, status, resolution, write_fault)

update_issue(issue_id, title, description, status, resolution, read_fault, write_fault) ==
    DbStep("update_issue", issue_id,
           update_issue_result(db_issues, clock, issue_id, title, description, status,
                               resolution, read_fault, write_fault))

\* database.delete_issue on the table tbl
db_delete_issue_result_any(tbl, issue_id, fault) ==
    [issues |-> IF fault THEN tbl ELSE SelectSeq(tbl, LAMBDA row : row.id # issue_id),
     value |-> ~fault]

db_delete_issue_result(tbl, issue_id, fault) ==
    [issues |-> IF fault THEN tbl ELSE SelectSeq(tbl, LAMBDA row : row.id # issue_id),
     value |-> ~fault /\ RowsWithId(tbl, issue_id) # <<>>]

db_delete_issue(issue_id, fault) ==
    DbStep("database.delete_issue", issue_id, db_delete_issue_result(db_issues, issue_id, fault))

\* a second passes: CURRENT_TIMESTAMP and datetime.now() read the next value
Tick ==
    /\ clock < MaxClock
    /\ clock' = clock + 1
    /\ UNCHANGED <<issues, archive_file, all_issues_file, db_issues, db_sequence, db_checks,
                   db_schema, ret,
                   db_open, backups, writers>>

(***************************************************************************)
(* database.transaction: a connection of Python's sqlite3 module on the    *)
(* database file.  The module opens a transaction before an INSERT, UPDATE *)
(* or DELETE and not before any other statement, so a CREATE TABLE run     *)
(* outside a transaction is on file at once; commit() and rollback() act   *)
(* on the open transaction only.                                           *)
(***************************************************************************)
Database(tbl, sequence, schema) == [issues |-> tbl, sequence |-> sequence, schema |-> schema]

\* statements: INSERT INTO issues, CREATE TABLE name, and one the engine rejects
Insert(row) == [kind |-> "insert", row |-> row]

CreateTable(name) == [kind |-> "create_table", name |-> name]

BadStatement == [kind |-> "rejected"]

\* the row an INSERT of (title, description, status) adds
inserted_row(row, now) ==
    [id |-> 0, title |-> row.title, description |-> row.description, resolution |-> None,
     status |-> row.status, created_at |-> now, updated_at |-> now]

\* whether the engine runs the statement: NOT NULL and CHECK of issues, no table made twice
Runs(stmt, db, checks) ==
    CASE stmt.kind = "insert" ->
             /\ stmt.row.title # None
             /\ checks => CheckLength(stmt.row.title) /\ CheckLength(stmt.row.description)
      [] stmt.kind = "create_table" -> stmt.name \notin db.schema
      [] OTHER -> FALSE

\* the database after the statement has run
Applied(stmt, db, now) ==
    IF stmt.kind = "insert"
    THEN [db EXCEPT !.issues = Append(db.issues, [inserted_row(stmt.row, now)
                                                     EXCEPT !.id = db.sequence + 1]),
                    !.sequence = db.sequence + 1]
    ELSE [db EXCEPT !.schema = db.schema \cup {stmt.name}]

\* get_connection: on_file is the database file, seen is what this connection
\* sees, ran counts the statements it has run
Connection(db) ==
    [on_file |-> db, seen |-> db, in_transaction |-> FALSE, raised |-> FALSE, ran |-> 0]

\* conn.execute(stmt); nothing runs once a statement has raised
execute(conn, stmt, checks, now) ==
    IF conn.raised THEN conn
    ELSE IF ~Runs(stmt, conn.seen, checks)
    THEN [conn EXCEPT !.raised = TRUE,
                      !.in_transaction = conn.in_transaction \/ stmt.kind = "insert"]
    ELSE IF stmt.kind = "insert"
    THEN [conn EXCEPT !.seen = Applied(stmt, conn.seen, now), !.in_transaction = TRUE,
                      !.ran = conn.ran + 1]
    ELSE IF conn.in_transaction
    THEN [conn EXCEPT !.seen = Applied(stmt, conn.seen, now), !.ran = conn.ran + 1]
    ELSE [conn EXCEPT !.seen = Applied(stmt, conn.seen, now),
                      !.on_file = Applied(stmt, conn.on_file, now),
                      !.ran = conn.ran + 1]

\* the statements of a block, in order
RECURSIVE execute_all(_, _, _, _)
execute_all(conn, stmts, checks, now) ==
    IF stmts = <<>> THEN conn
    ELSE execute_all(execute(conn, Head(stmts), checks, now), Tail(stmts), checks, now)

\* cursor.executemany(INSERT ..., params_list)
executemany(conn, params_list, checks, now) ==
    execute_all(conn, [i \in 1..Len(params_list) |-> Insert(params_list[i])], checks, now)

\* conn.executescript(script): commits what is open, then runs each statement
\* on its own, so each one that runs is on file
RECURSIVE executescript(_, _, _, _)
executescript(conn, script, checks, now) ==
    IF script = <<>> \/ conn.raised THEN conn
    ELSE IF ~Runs(Head(script), conn.seen, checks)
    THEN [conn EXCEPT !.raised = TRUE, !.on_file = conn.seen, !.in_transaction = FALSE]
    ELSE executescript([on_file |-> Applied(Head(script), conn.seen, now),
                        seen |-> Applied(Head(script), conn.seen, now),
                        in_transaction |-> FALSE, raised |-> FALSE, ran |-> conn.ran + 1],
                       Tail(script), checks, now)

\* leaving the with block: commit, or rollback and re-raise
transaction_exit_no_rollback(conn) ==
    [db |-> conn.seen, value |-> ~conn.raised, ran |-> conn.ran]

transaction_exit(conn) ==
    [db |-> IF conn.raised THEN conn.on_file ELSE conn.seen, value |-> ~conn.raised,
     ran |-> conn.ran]

\* with transaction() as conn: conn.execute(...) for each statement of stmts
transaction(db, stmts, checks, now) ==
    transaction_exit(execute_all(Connection(db), stmts, checks, now))

\* execute_batch: True, or False when the block raised sqlite3.Error
execute_batch_result(db, params_list, checks, now) ==
    transaction_exit(executemany(Connection(db), params_list, checks, now))

\* the parameters create_issues_batch makes of its list of dicts
batch_params(batch) ==
    [i \in 1..Len(batch) |->
        [title |-> batch[i].title, description |-> batch[i].description,
         status |-> IF "status" \in DOMAIN batch[i] THEN batch[i].status ELSE Lower(OPEN)]]

create_issues_batch_result(db, batch, checks, now) ==
    execute_batch_result(db, batch_params(batch), checks, now)

execute_script_result(db, script, checks, now) ==
    transaction_exit(executescript(Connection(db), script, checks, now))

\* a call that works on the database file as a whole; what is kept of it is
\* its value and how many statements ran
FileStep(op, r) ==
    /\ db_issues' = r.db.issues
    /\ db_sequence' = r.db.sequence
    /\ db_schema' = r.db.schema
    /\ ret' = Returned(op, r.ran, r.value)
    /\ UNCHANGED <<issues, archive_file, all_issues_file, db_checks, clock,
                   db_open, backups, writers>>

DbFile == Database(db_issues, db_sequence, db_schema)

transaction_block(stmts) ==
    FileStep("transaction", transaction(DbFile, stmts, db_checks, clock))

execute_batch(params_list) ==
    FileStep("execute_batch", execute_batch_result(DbFile, params_list, db_checks, clock))

create_issues_batch(batch) ==
    FileStep("create_issues_batch", create_issues_batch_result(DbFile, batch, db_checks, clock))

execute_script(script) ==
    FileStep("execute_script", execute_script_result(DbFile, script, db_checks, clock))

(***************************************************************************)
(* database.search_issues and database.full_text_search.  The engine's     *)
(* LIKE reads % in the pattern as any run of characters and _ as any one   *)
(* character, and compares ASCII letters without regard to case; NULL      *)
(* matches nothing.  Rows that tie in the ORDER BY come in any order.      *)
(***************************************************************************)
RECURSIVE Like(_, _)
Like(text, pattern) ==
    IF pattern = <<>> THEN text = <<>>
    ELSE IF Head(pattern) = "%"
    THEN Like(text, Tail(pattern)) \/ (text # <<>> /\ Like(Tail(text), pattern))
    ELSE /\ text # <<>>
         /\ Head(pattern) = "_" \/ LowerChar(Head(pattern)) = LowerChar(Head(text))
         /\ Like(Tail(text), Tail(pattern))

\* column LIKE ? with the parameter f'%{keyword}%'
LikeKeyword(column, keyword) == column # None /\ Like(column, <<"%">> \o keyword \o <<"%">>)

\* the sequences that hold each row of rows once, ordered by created_at DESC
NewestFirst(rows) ==
    {s \in [1..Cardinality(rows) -> rows] :
        /\ \A i, j \in 1..Cardinality(rows) : i < j => s[i].id # s[j].id
        /\ \A i, j \in 1..Cardinality(rows) : i < j => s[i].created_at >= s[j].created_at}

\* the sequences that hold each row of rows once, in the order of an opaque rank
AnyOrder(rows) ==
    {s \in [1..Cardinality(rows) -> rows] :
        \A i, j \in 1..Cardinality(rows) : i < j => s[i].id # s[j].id}

RowSet(tbl) == {tbl[i] : i \in 1..Len(tbl)}

\* the lists search_issues may return; a failing query gives the empty list
search_issues_results(tbl, keyword, fault) ==
    IF fault THEN {<<>>}
    ELSE NewestFirst({row \in RowSet(tbl) :
                         LikeKeyword(row.title, keyword) \/ LikeKeyword(row.description, keyword)})

\* a search leaves the database alone; what is kept is the term and the list
SearchStep(op, term, results) ==
    /\ \E value \in results : ret' = [op |-> op, id |-> 0, term |-> term, value |-> value]
    /\ UNCHANGED <<issues, archive_file, all_issues_file, db_issues, db_sequence, db_checks,
                   db_schema, clock,
                   db_open, backups, writers>>

search_issues(keyword, fault) ==
    SearchStep("search_issues", keyword, search_issues_results(db_issues, keyword, fault))

FTS_TABLE == "issues_fts"

\* enable_full_text_search: the index table and its triggers, made once
enable_full_text_search(fault) ==
    /\ db_schema' = IF fault THEN db_schema ELSE db_schema \cup {FTS_TABLE}
    /\ ret' = Returned("enable_full_text_search", 0, ~fault)
    /\ UNCHANGED <<issues, archive_file, all_issues_file, db_issues, db_sequence, db_checks,
                   clock,
                   db_open, backups, writers>>

\* the index's tokens of a text: its runs of letters, in lower case
IsTokenChar(c) == c \notin {" ", "_", "%", "\""}

RECURSIVE TokensAcc(_, _)
TokensAcc(s, piece) ==
    IF s = <<>> THEN (IF piece = <<>> THEN {} ELSE {piece})
    ELSE IF IsTokenChar(Head(s)) THEN TokensAcc(Tail(s), Append(piece, LowerChar(Head(s))))
    ELSE (IF piece = <<>> THEN {} ELSE {piece}) \cup TokensAcc(Tail(s), <<>>)

Tokens(text) == IF text = None THEN {} ELSE TokensAcc(text, <<>>)

\* whether the engine takes the term as a MATCH query: an empty term and a
\* term with a character outside the query syntax are syntax errors
IsFtsQuery(term) == term # <<>> /\ \A i \in 1..Len(term) : term[i] \notin {"%", "\""}

\* whether the full-text query of full_text_search raises in the engine
FtsQueryFails(schema, term, fault) == fault \/ FTS_TABLE \notin schema \/ ~IsFtsQuery(term)

\* issues_fts MATCH term: every token of the term is a token of the row
FtsMatch(row, term) ==
    /\ Tokens(term) # {}
    /\ Tokens(term) \subseteq Tokens(row.title) \cup Tokens(row.description)

\* the lists full_text_search may return.  execute_query turns the engine's
\* error into the empty list, so the except branch never runs.
full_text_search_results(tbl, schema, term, fault) ==
    IF FtsQueryFails(schema, term, fault) THEN {<<>>}
    ELSE AnyOrder({row \in RowSet(tbl) : FtsMatch(row, term)})

full_text_search(term, fault) ==
    SearchStep("full_text_search", term,
               full_text_search_results(db_issues, db_schema, term, fault))

(***************************************************************************)
(* database.get_database_stats: three COUNT queries and the size of the    *)
(* file, each written into the stats dict as soon as it is known.  The     *)
(* step that fails, if any, is failing_step: 1 to 3 for the queries (an    *)
(* empty list from execute_query, so [0] raises), 4 for os.path.getsize.   *)
(***************************************************************************)
CLOSED == <<"c", "l", "o", "s", "e", "d">>

STATS_STEPS == 4

\* SELECT COUNT(*) FROM issues WHERE status = ?
CountStatus(tbl, status) == Cardinality({i \in 1..Len(tbl) : tbl[i].status = status})

\* the dict as it is once the steps before failing_step have run (0: all of them)
stats_after(tbl, size_kb, failing_step) ==
    [total_issues |-> IF failing_step = 1 THEN 0 ELSE Len(tbl),
     open_issues |-> IF failing_step \in 1..2 THEN 0 ELSE CountStatus(tbl, Lower(OPEN)),
     closed_issues |-> IF failing_step \in 1..3 THEN 0 ELSE CountStatus(tbl, CLOSED),
     database_size_kb |-> IF failing_step \in 1..4 THEN 0 ELSE size_kb]

\* the size of the database file in KB: a few pages of 4 KB
FileSizesKb == {8, 12}

get_database_stats(failing_step) ==
    /\ \E size_kb \in FileSizesKb :
          ret' = Returned("get_database_stats", failing_step,
                          stats_after(db_issues, size_kb, failing_step))
    /\ UNCHANGED <<issues, archive_file, all_issues_file, db_issues, db_sequence, db_checks,
                   db_schema, clock,
                   db_open, backups, writers>>

\* database.export_to_csv: False for no issues (also when the SELECT fails and
\* execute_query gives []) and when the file cannot be written; it never raises
db_export_to_csv(tbl, read_fault, write_fault) ==
    [value |-> execute_query(tbl, read_fault) # <<>> /\ ~write_fault, raised |-> FALSE]

(***************************************************************************)
(* database.create_backup and restore_from_backup: whole-file copies.  A   *)
(* backup's name is the time to the second, so a second backup within the  *)
(* same second replaces the first.  Every operation closes its connection, *)
(* so the file holds every committed write when it is copied.              *)
(***************************************************************************)
\* the database file as a whole, table constraints included
WholeFile == [db |-> DbFile, checks |-> db_checks]

HasBackup(files, path) == \E b \in files : b.path = path

BackupAt(files, path) == CHOOSE b \in files : b.path = path

create_backup ==
    /\ backups' = {b \in backups : b.path # clock} \cup {[path |-> clock, file |-> WholeFile]}
    /\ ret' = Returned("create_backup", 0, clock)
    /\ UNCHANGED <<issues, archive_file, all_issues_file, db_issues, db_sequence, db_checks,
                   db_schema, db_open, writers, clock>>

\* restore_from_backup: the file after the call and the value returned
restore_result_any_path(files, live, path) ==
    [file |-> IF HasBackup(files, path) THEN BackupAt(files, path).file ELSE live,
     value |-> TRUE]

restore_result(files, live, path) ==
    IF HasBackup(files, path)
    THEN [file |-> BackupAt(files, path).file, value |-> TRUE]
    ELSE [file |-> live, value |-> FALSE]

restore_step(path, r) ==
    /\ db_issues' = r.file.db.issues
    /\ db_sequence' = r.file.db.sequence
    /\ db_schema' = r.file.db.schema
    /\ db_checks' = r.file.checks
    /\ ret' = [op |-> "restore_from_backup", id |-> path, value |-> r.value,
               replaced |-> r.file # WholeFile]
    /\ UNCHANGED <<issues, archive_file, all_issues_file, db_open, backups, writers, clock>>

restore_from_backup(path) == restore_step(path, restore_result(backups, WholeFile, path))

(***************************************************************************)
(* Connection lifetime.  db_open counts the connections to the database    *)
(* file that are open between operations.  transaction() closes its        *)
(* connection in a finally clause; get_connection, optimize_database and   *)
(* get_connection_info call close() on the normal path only.  A connection *)
(* nobody closed stays open until the runtime finalizes the object: at     *)
(* once where objects are reference counted, at some later collection      *)
(* elsewhere.  Both outcomes are followed.                                 *)
(***************************************************************************)
\* the connections an operation leaves open
left_open(closed, finalized) == IF closed \/ finalized THEN 0 ELSE 1

\* get_all_issues through execute_query and transaction(): get_connection may
\* raise on a PRAGMA before transaction() holds the connection
get_all_issues_result(tbl, connect_fault, query_fault, finalized) ==
    [value |-> execute_query(tbl, connect_fault \/ query_fault),
     left |-> left_open(~connect_fault, finalized)]

optimize_database_result(connect_fault, vacuum_fault, finalized) ==
    [value |-> ~(connect_fault \/ vacuum_fault),
     left |-> left_open(~(connect_fault \/ vacuum_fault), finalized)]

\* what the six PRAGMA queries of get_connection_info read on a fresh connection
PRAGMA_INFO ==
    [foreign_keys |-> 1, journal_mode |-> "wal", synchronous |-> 1,
     cache_size |-> -10000, temp_store |-> 2, auto_vacuum |-> 0]

get_connection_info_result(connect_fault, pragma_fault, finalized) ==
    [value |-> IF connect_fault \/ pragma_fault THEN [error |-> "sqlite3.Error"]
               ELSE PRAGMA_INFO,
     left |-> left_open(~(connect_fault \/ pragma_fault), finalized)]

ConnectionStep(op, r) ==
    /\ db_open + r.left <= MaxOpen
    /\ db_open' = db_open + r.left
    /\ ret' = Returned(op, 0, r.value)
    /\ UNCHANGED <<issues, archive_file, all_issues_file, db_issues, db_sequence, db_checks,
                   db_schema, backups, writers, clock>>

get_all_issues(connect_fault, query_fault, finalized) ==
    ConnectionStep("get_all_issues",
                   get_all_issues_result(db_issues, connect_fault, query_fault, finalized))

optimize_database(connect_fault, vacuum_fault, finalized) ==
    ConnectionStep("optimize_database",
                   optimize_database_result(connect_fault, vacuum_fault, finalized))

get_connection_info(connect_fault, pragma_fault, finalized) ==
    ConnectionStep("get_connection_info",
                   get_connection_info_result(connect_fault, pragma_fault, finalized))

\* the runtime finalizes the connection objects nobody refers to
finalize_connections ==
    /\ db_open > 0
    /\ db_open' = 0
    /\ UNCHANGED <<issues, archive_file, all_issues_file, db_issues, db_sequence, db_checks,
                   db_schema, backups, writers, clock, ret>>

(***************************************************************************)
(* update_issue as two writers run it.  The call reads the current record  *)
(* through get_issue_by_id in one transaction and writes every column      *)
(* through execute_query in another, with no version check in between, so  *)
(* another writer's call may run between the two.  writers.pending holds   *)
(* the calls that have read and not yet written, each with the record it   *)
(* read; writers.log lists the reads and writes in the order they ran.     *)
(***************************************************************************)
\* no caller is inside update_issue
NoWriters == [pending |-> {}, log |-> <<>>]

HasRun(log, writer) == \E k \in 1..Len(log) : log[k].writer = writer

\* current = get_issue_by_id(issue_id)
update_read(writer, issue_id, in) ==
    /\ ~HasRun(writers.log, writer)
    /\ writers' =
          [pending |-> writers.pending \cup
                          {[writer |-> writer, issue_id |-> issue_id, in |-> in,
                            current |-> get_issue_by_id_result(db_issues, issue_id, FALSE)]},
           log |-> Append(writers.log,
                          [writer |-> writer, step |-> "read", issue_id |-> issue_id,
                           in |-> in, value |-> TRUE])]
    /\ UNCHANGED <<issues, archive_file, all_issues_file, db_issues, db_sequence, db_checks,
                   db_schema, db_open, backups, clock, ret>>

\* the rest of update_issue, from `if not current` on
update_written(call, r) ==
    /\ db_issues' = r.issues
    /\ writers' =
          [pending |-> writers.pending \ {call},
           log |-> Append(writers.log,
                          [writer |-> call.writer, step |-> "write",
                           issue_id |-> call.issue_id, in |-> call.in, value |-> r.value])]
    /\ ret' = Returned("update_issue", call.issue_id, r.value)
    /\ UNCHANGED <<issues, archive_file, all_issues_file, db_sequence, db_checks, db_schema,
                   db_open, backups, clock>>

update_write(call) ==
    update_written(call,
                   update_found(db_issues, call.current, clock, call.issue_id, call.in.title,
                                call.in.description, call.in.status, call.in.resolution, FALSE))

(***************************************************************************)
(* The state after start-up: create_table has made an empty table, the     *)
(* archive file has never been written, initialize_database has made the   *)
(* record store's empty table.                                             *)
(***************************************************************************)
Init ==
    /\ issues = <<>>
    /\ archive_file = [exists |-> FALSE, rows |-> <<>>]
    /\ all_issues_file = [exists |-> FALSE, rows |-> <<>>]
    /\ db_issues = <<>>
    /\ db_sequence = 0
    /\ db_checks = TRUE
    /\ db_schema = {}
    /\ db_open = 0
    /\ backups = {}
    /\ writers = NoWriters
    /\ clock = 0
    /\ ret = Returned("start", 0, FALSE)

(***************************************************************************)
(* What the operator may type                                              *)
(***************************************************************************)
TypedIds(max) == {BadId} \cup {TypedId(n) : n \in 0..max}

Confirms == {<<" ", "Y">>, N}

T1 == <<"t">>
D1 == <<"d">>

AllStatusKeys == {<<>>, <<"O">>, <<"i">>, <<"r">>, <<"a">>, Lower(ARCHIVED), <<"x">>}

(***************************************************************************)
(* Spec: the lifecycle of a store of at most MaxRows issues, every id      *)
(* within reach of edit, archive and delete.                               *)
(***************************************************************************)
AddShell ==
    \E t \in {<<>>, T1}, d \in {<<>>, D1}, c \in Confirms :
        NextRowid(issues) <= MaxRows /\ add_issue(t, d, <<>>, c)

EditShell ==
    \E i \in TypedIds(MaxRows), s \in AllStatusKeys, c \in Confirms :
        edit_issue(i, <<>>, <<>>, <<>>, s, <<>>, c)

ArchiveShell ==
    \E i \in TypedIds(MaxRows), c \in Confirms : archive_issue(i, c)

DeleteShell ==
    \E i \in TypedIds(MaxRows), c \in Confirms : delete_issue(i, c)

Next == AddShell \/ EditShell \/ ArchiveShell \/ DeleteShell

Spec == Init /\ [][Next]_vars

(***************************************************************************)
(* SpecCap: the store filled to the cap.  Every add is confirmed; edit,    *)
(* archive and delete reach the ids 0..MaxCapEditId.                       *)
(***************************************************************************)
AddCap == add_issue(T1, D1, <<>>, Y)

EditCap ==
    \E i \in TypedIds(MaxCapEditId), s \in {<<"r">>, <<"a">>} :
        edit_issue(i, <<>>, <<>>, <<>>, s, <<>>, Y)

ArchiveCap == \E i \in TypedIds(MaxCapEditId) : archive_issue(i, Y)

DeleteCap == \E i \in TypedIds(MaxCapEditId) : delete_issue(i, Y)

NextCap == AddCap \/ EditCap \/ ArchiveCap \/ DeleteCap

SpecCap == Init /\ [][NextCap]_vars

(***************************************************************************)
(* Properties of the shell operations                                      *)
(***************************************************************************)
Has(tbl, issue_id) == \E i \in 1..Len(tbl) : tbl[i].id = issue_id

RowOf(tbl, issue_id) == tbl[CHOOSE i \in 1..Len(tbl) : tbl[i].id = issue_id]

StatusOf(tbl, issue_id) == IF Has(tbl, issue_id) THEN RowOf(tbl, issue_id).status ELSE None

SameContent(a, b) ==
    /\ a.title = b.title
    /\ a.description = b.description
    /\ a.tags = b.tags
    /\ a.status = b.status
    /\ a.resolution = b.resolution

DataRows(file) == SelectSeq(file.rows, LAMBDA row : row.kind = "data")

NonArchivedCount(tbl) == Cardinality({i \in 1..Len(tbl) : tbl[i].status # ARCHIVED})

\* C1: Archived is terminal.  In every step of add_issue, edit_issue,
\* archive_issue and delete_issue a row whose status is Archived stays in the
\* store with the same title, description, tags, status and resolution, and an
\* edit_issue call on its id returns False.
C1_ArchivedIsTerminal ==
    [][\A i \in 1..Len(issues) :
          issues[i].status = ARCHIVED =>
              /\ Has(issues', issues[i].id)
              /\ SameContent(RowOf(issues', issues[i].id), issues[i])
              /\ (ret'.op = "edit_issue" /\ ret'.id = issues[i].id => ret'.value = FALSE)
      ]_vars

\* an edit_issue call on an Archived id has just returned False
C1_Witness ==
    /\ ret.op = "edit_issue"
    /\ ret.value = FALSE
    /\ StatusOf(issues, ret.id) = ARCHIVED

\* C2: Archive is permitted only from Resolved.  In every step, a row whose
\* status changes to Archived had the status Resolved before the step.
C2_ArchiveOnlyFromResolved ==
    [][\A i \in 1..Len(issues) :
          (/\ issues[i].status # ARCHIVED
           /\ StatusOf(issues', issues[i].id) = ARCHIVED)
          => issues[i].status = RESOLVED
      ]_vars

\* C3: archive_issue on a Resolved issue, confirmed with y, sets the stored
\* status to Archived, appends exactly one data row (that issue's) to the
\* archive file and keeps every row the file had, and returns True; and every
\* later edit_issue call on an Archived id returns False with the store unchanged.
C3_ArchiveResolved ==
    [][/\ ret'.op = "archive_issue" =>
            \A n \in 0..MaxRows + 1 :
                (/\ archive_issue(TypedId(n), Y)
                 /\ StatusOf(issues, n) = RESOLVED)
                => /\ StatusOf(issues', n) = ARCHIVED
                   /\ Len(DataRows(archive_file')) = Len(DataRows(archive_file)) + 1
                   /\ archive_file'.exists
                   /\ SubSeq(archive_file'.rows, 1, Len(archive_file.rows))
                          = archive_file.rows
                   /\ archive_file'.rows[Len(archive_file'.rows)].kind = "data"
                   /\ archive_file'.rows[Len(archive_file'.rows)].issue.id = n
                   /\ ret'.value = TRUE
       /\ (ret'.op = "edit_issue" /\ StatusOf(issues, ret'.id) = ARCHIVED)
            => ret'.value = FALSE /\ issues' = issues
      ]_vars

\* a second issue has been archived by archive_issue: the file holds two data rows
C3_Witness ==
    /\ ret.op = "archive_issue"
    /\ ret.value = TRUE
    /\ StatusOf(issues, ret.id) = ARCHIVED
    /\ Len(DataRows(archive_file)) = 2

\* C4: delete_issue removes a row only when its status is Open.  A call on an
\* id whose status is In Progress, Resolved or Archived, or on an id that is
\* not stored, returns False and leaves every row as it was.
C4_DeleteOnlyOpen ==
    [][\A n \in 0..MaxRows + 1, c \in Confirms :
          (ret'.op = "delete_issue" /\ delete_issue(TypedId(n), c)) =>
              /\ (ret'.value = TRUE =>
                     /\ StatusOf(issues, n) = OPEN
                     /\ ~Has(issues', n))
              /\ (StatusOf(issues, n) \in {IN_PROGRESS, RESOLVED, ARCHIVED, None} =>
                     /\ ret'.value = FALSE
                     /\ issues' = issues)
      ]_vars

\* delete_issue has returned False for a stored issue that is not Open
C4_Witness ==
    /\ ret.op = "delete_issue"
    /\ ret.value = FALSE
    /\ StatusOf(issues, ret.id) \in {IN_PROGRESS, RESOLVED, ARCHIVED}

\* C5: the number of stored issues that are not Archived never exceeds
\* MAX_ISSUES, and add_issue called when it is MAX_ISSUES returns False and
\* leaves the store unchanged.
C5_IssueCap ==
    /\ NonArchivedCount(issues) <= MAX_ISSUES
    /\ [][/\ NonArchivedCount(issues') <= MAX_ISSUES
          /\ (add_issue(T1, D1, <<>>, Y) /\ NonArchivedCount(issues) = MAX_ISSUES
                => ret'.value = FALSE /\ issues' = issues)
         ]_vars

\* a confirmed add_issue has been refused with seven live issues and one archived
C5_Witness ==
    /\ ret.op = "add_issue"
    /\ ret.value = FALSE
    /\ NonArchivedCount(issues) = MAX_ISSUES
    /\ Len(issues) > MAX_ISSUES

(***************************************************************************)
(* SpecTrunc: truncate_text on a text of each length up to MaxTruncLen     *)
(* whose letters all differ, on every text of at most two letters, and on  *)
(* every max_length up to MaxTruncLimit, beside a record store that is     *)
(* handed texts at and over its limit.                                     *)
(***************************************************************************)
Letters == <<"a", "b", "c", "d", "e", "f", "g", "h", "i", "j">>

TruncTexts == {SubSeq(Letters, 1, n) : n \in 0..MaxTruncLen} \cup Texts({"a", "b"}, 2)

LongRecord ==
    [title |-> Rep("x", DB_TEXT_MAX + 1), description |-> Rep("y", DB_TEXT_MAX + 10),
     status |-> Lower(OPEN), resolution |-> Rep("z", DB_TEXT_MAX + 1)]

EdgeRecord ==
    [title |-> Rep("x", DB_TEXT_MAX), description |-> <<>>,
     status |-> Lower(OPEN), resolution |-> Rep("z", DB_TEXT_MAX - 1)]

TruncCreates == {LongRecord, EdgeRecord}

TruncUpdates ==
    {[title |-> Rep("w", DB_TEXT_MAX + 2), description |-> Rep("v", DB_TEXT_MAX + 1),
      status |-> Lower(RESOLVED), resolution |-> Rep("u", DB_TEXT_MAX + 3)]}

TruncateAny ==
    \E text \in TruncTexts, max_length \in 0..MaxTruncLimit : TruncateText(text, max_length)

CreateTrunc ==
    \E in \in TruncCreates :
        db_sequence < MaxDbId /\ create_issue(in.title, in.description, in.status, in.resolution, FALSE)

UpdateTrunc ==
    \E n \in 1..MaxDbId, in \in TruncUpdates :
        update_issue(n, in.title, in.description, in.status, in.resolution, FALSE, FALSE)

NextTrunc == TruncateAny \/ CreateTrunc \/ UpdateTrunc

SpecTrunc == Init /\ [][NextTrunc]_vars

\* V is S truncated with the ellipsis to the limit L
IsTruncated(S, L, V) ==
    IF Len(S) > L
    THEN Len(V) = L /\ V = SubSeq(S, 1, L - 3) \o ELLIPSIS
    ELSE V = S

\* a stored text is the supplied one truncated to DB_TEXT_MAX
StoredTruncated(supplied, stored) ==
    /\ stored # None
    /\ Len(stored) <= DB_TEXT_MAX
    /\ IsTruncated(supplied, DB_TEXT_MAX, stored)

RowTruncated(in, row) ==
    /\ StoredTruncated(in.title, row.title)
    /\ StoredTruncated(in.description, row.description)
    /\ StoredTruncated(in.resolution, row.resolution)

Created(r, in) == r.value > 0 /\ RowTruncated(in, RowOf(r.issues, r.value))

Updated(r, in, issue_id) == r.value /\ RowTruncated(in, RowOf(r.issues, issue_id))

\* every stored text is within the limit, and create_issue and update_issue
\* store each supplied title, description and resolution truncated to it
StoreTruncates ==
    /\ \A i \in 1..Len(db_issues) :
          /\ Len(db_issues[i].title) <= DB_TEXT_MAX
          /\ db_issues[i].description = None \/ Len(db_issues[i].description) <= DB_TEXT_MAX
          /\ db_issues[i].resolution = None \/ Len(db_issues[i].resolution) <= DB_TEXT_MAX
    /\ \A in \in TruncCreates :
          Created(create_issue_result(db_issues, db_sequence, clock, in.title, in.description,
                                      in.status, in.resolution, FALSE), in)
    /\ \A i \in 1..Len(db_issues), in \in TruncUpdates :
          Updated(update_issue_result(db_issues, clock, db_issues[i].id, in.title,
                                      in.description, in.status, in.resolution, FALSE, FALSE),
                  in, db_issues[i].id)

\* C6 as stated: for every text S and every limit L, truncate_text(S, L) is S
\* when S has at most L characters and otherwise has exactly L characters,
\* the first L - 3 of S followed by "..."; and create_issue and update_issue
\* store title, description and resolution truncated so to 140 characters.
C6_TruncateEveryLimit ==
    /\ ret.op = "truncate_text" => IsTruncated(ret.text, ret.max_length, ret.value)
    /\ StoreTruncates

\* C6 for the limits an ellipsis fits in: for every text S and every limit
\* L >= 3, truncate_text(S, L) is S when S has at most L characters and
\* otherwise has exactly L characters, the first L - 3 of S followed by "...";
\* and create_issue and update_issue store title, description and resolution
\* truncated so to 140 characters, so that no stored one exceeds 140.
C6_TruncateFromThree ==
    /\ (ret.op = "truncate_text" /\ ret.max_length >= 3)
           => IsTruncated(ret.text, ret.max_length, ret.value)
    /\ StoreTruncates

\* truncate_text has cut a text to a limit of at least three, beside a stored
\* title that create_issue cut to 140 characters ending in the ellipsis
C6_Witness ==
    /\ ret.op = "truncate_text"
    /\ ret.max_length >= 3
    /\ Len(ret.text) > ret.max_length
    /\ \E i \in 1..Len(db_issues) :
          Len(db_issues[i].title) = DB_TEXT_MAX /\ EndsWith(db_issues[i].title, ELLIPSIS)

(***************************************************************************)
(* SpecTitle: a store of at most MaxTextRows issues whose typed titles,    *)
(* descriptions and resolution notes are all longer than their limits.     *)
(***************************************************************************)
LongTitles == {Rep("x", TITLE_MAX + 1), Rep("w", TITLE_MAX + 10),
               Rep("x", TITLE_MAX - 2) \o ELLIPSIS}

LongDescriptions == {Rep("y", DESCRIPTION_MAX + 1), Rep("v", DESCRIPTION_MAX + 60)}

LongResolutions == {Rep("z", RESOLUTION_MAX + 1)}

AddTitle ==
    \E t \in LongTitles, d \in LongDescriptions :
        NextRowid(issues) <= MaxTextRows /\ add_issue(t, d, <<>>, Y)

EditTitle ==
    \E i \in TypedIds(MaxTextRows), t \in LongTitles \cup {<<>>},
       d \in LongDescriptions \cup {<<>>}, s \in {<<>>, <<"o">>, <<"i">>, <<"r">>},
       r \in LongResolutions \cup {<<>>} :
        edit_issue(i, t, d, <<>>, s, r, Y)

DeleteTitle == \E i \in TypedIds(MaxTextRows) : delete_issue(i, Y)

NextTitle == AddTitle \/ EditTitle \/ DeleteTitle

SpecTitle == Init /\ [][NextTitle]_vars

\* C7: add_issue with a title longer than 70 characters stores a title of
\* exactly 70 characters that ends in "...", and with a description longer
\* than 140 characters stores one of exactly 140 characters that ends in "...".
\* (Under SpecTitle every typed title and description is over its limit.)
C7_AddTruncatesWithEllipsis ==
    (ret.op = "add_issue" /\ ret.value = TRUE) =>
        LET row == RowOf(issues, ret.id)
        IN /\ Len(row.title) = TITLE_MAX
           /\ EndsWith(row.title, ELLIPSIS)
           /\ Len(row.description) = DESCRIPTION_MAX
           /\ EndsWith(row.description, ELLIPSIS)

(***************************************************************************)
(* SpecTags: a store of at most MaxTextRows issues and every tag line of   *)
(* at most MaxTagInput letters and commas that holds more than TAGS_MAX    *)
(* tags, a line of five tags typed with spaces, and the lines of at most   *)
(* TAGS_MAX letters and commas.  A confirmed edit reaches the ids          *)
(* 1..MaxTextRows, a declined one every id.                                *)
(***************************************************************************)
TagLines == Texts({"a", ","}, MaxTagInput)

\* " b,a, c ,d,e"
SpacedTagLine == <<" ", "b", ",", "a", ",", " ", "c", " ", ",", "d", ",", "e">>

ManyTagLines == {g \in TagLines \cup {SpacedTagLine} : Len(ParseTags(Strip(g))) > TAGS_MAX}

ShortTagLines == Texts({"a", ","}, TAGS_MAX)

TagInputs == ManyTagLines \cup ShortTagLines

AddTags ==
    \E g \in TagInputs :
        NextRowid(issues) <= MaxTextRows /\ add_issue(T1, D1, g, Y)

EditTags ==
    \/ \E n \in 1..MaxTextRows, g \in TagInputs :
            edit_issue(TypedId(n), <<>>, <<>>, g, <<>>, <<>>, Y)
    \/ \E i \in TypedIds(MaxTextRows) :
            edit_issue(i, <<>>, <<>>, <<"a">>, <<>>, <<>>, N)

DeleteTags == \E i \in TypedIds(MaxTextRows), c \in Confirms : delete_issue(i, c)

NextTags == AddTags \/ EditTags \/ DeleteTags

SpecTags == Init /\ [][NextTags]_vars

TagsOf(tbl, issue_id) == RowToIssue(RowOf(tbl, issue_id)).tags

FirstTags(g) == SubSeq(ParseTags(Strip(g)), 1, TAGS_MAX)

\* an operation's result r is a success that stored the first TAGS_MAX tags of g
StoresFirstTags(r, g) ==
    \E done \in {r} : done.value /\ TagsOf(done.issues, done.id) = FirstTags(g)

\* C8: every stored issue has at most TAGS_MAX tags; and in every reachable
\* store, for every tag line that holds more than TAGS_MAX tags, a confirmed
\* add_issue stores a row whose tags are the first TAGS_MAX tags of the line
\* in their order, and so does a confirmed edit_issue of any stored issue
\* that is not Archived.
C8_TagCap ==
    /\ \A i \in 1..Len(issues) : Len(RowToIssue(issues[i]).tags) <= TAGS_MAX
    /\ \A g \in ManyTagLines :
        /\ ~AtCapacity(load_all(issues)) =>
              StoresFirstTags(add_issue_result(issues, clock, T1, D1, g, Y), g)
        /\ \A i \in 1..Len(issues) :
              issues[i].status # ARCHIVED =>
                  StoresFirstTags(edit_issue_result(issues, clock, TypedId(issues[i].id),
                                                    <<>>, <<>>, g, <<>>, <<>>, Y), g)

\* add_issue has stored the first three tags of a line of four or more
C8_Witness ==
    /\ ret.op = "add_issue"
    /\ ret.value = TRUE
    /\ TagsOf(issues, ret.id) = << <<>>, <<"a">>, <<>> >>

(***************************************************************************)
(* SpecDb: the record store over the ids 0..MaxDbId while the clock        *)
(* advances to MaxClock; every read and write may fail.                    *)
(***************************************************************************)
ShortRecord ==
    [title |-> T1, description |-> None, status |-> Lower(OPEN), resolution |-> None]

DbCreates == {ShortRecord, LongRecord}

NoChange == [title |-> None, description |-> None, status |-> None, resolution |-> None]

Resolve ==
    [title |-> Rep("w", DB_TEXT_MAX + 1), description |-> <<>>,
     status |-> Lower(RESOLVED), resolution |-> Rep("z", DB_TEXT_MAX + 1)]

DbUpdates == {NoChange, Resolve}

CreateDb ==
    \E in \in DbCreates, fault \in BOOLEAN :
        db_sequence < MaxDbId /\ create_issue(in.title, in.description, in.status, in.resolution, fault)

GetDb == \E n \in 0..MaxDbId, fault \in BOOLEAN : get_issue_by_id(n, fault)

UpdateDb ==
    \E n \in 0..MaxDbId, in \in DbUpdates, read_fault \in BOOLEAN, write_fault \in BOOLEAN :
        update_issue(n, in.title, in.description, in.status, in.resolution,
                     read_fault, write_fault)

DeleteDb == \E n \in 1..MaxDbId, fault \in BOOLEAN : db_delete_issue(n, fault)

NextDb == CreateDb \/ GetDb \/ UpdateDb \/ DeleteDb \/ Tick

SpecDb == Init /\ [][NextDb]_vars

\* a text as create_issue is to store it
Truncated(S) ==
    IF S # None /\ Len(S) > DB_TEXT_MAX THEN SubSeq(S, 1, DB_TEXT_MAX - 3) \o ELLIPSIS ELSE S

\* the record read back is the one created from the input in
ReadsBack(got, in, issue_id) ==
    /\ got # NotFound
    /\ got.id = issue_id
    /\ got.title = Truncated(in.title)
    /\ got.description = Truncated(in.description)
    /\ got.resolution = Truncated(in.resolution)
    /\ got.status = in.status
    /\ got.created_at = got.updated_at

RoundTrip(r, in) ==
    r.value > 0 => ReadsBack(get_issue_by_id_result(r.issues, r.value, FALSE), in, r.value)

\* C9: in every reachable store, for every title, description, status and
\* resolution, when create_issue returns an id > 0, get_issue_by_id of that id
\* returns a record whose title, description and resolution are the truncated
\* inputs, whose status is the input status and whose created_at equals its
\* updated_at; and get_issue_by_id of an id that is not stored returns None.
C9_CreateReadRoundTrip ==
    /\ \A in \in DbCreates, fault \in BOOLEAN :
          RoundTrip(create_issue_result(db_issues, db_sequence, clock, in.title,
                                        in.description, in.status, in.resolution, fault), in)
    /\ \A n \in 0..MaxDbId + 1, fault \in BOOLEAN :
          ~Has(db_issues, n) => get_issue_by_id_result(db_issues, n, fault) = NotFound
    /\ (ret.op = "get_issue_by_id" /\ ~Has(db_issues, ret.id)) => ret.value = NotFound

\* get_issue_by_id has read back a record that create_issue stored with its
\* title cut to 140 characters and no update since
C9_Witness ==
    /\ ret.op = "get_issue_by_id"
    /\ ret.value # NotFound
    /\ ret.value.title = Truncated(LongRecord.title)
    /\ ret.value.created_at = ret.value.updated_at
    /\ clock > ret.value.created_at

\* C10: in every reachable store, update_issue called with an id that is not
\* stored returns False and leaves the table as it is, whichever fields are
\* supplied and whether or not the read or the write fails.
C10_UpdateMissingId ==
    /\ \A n \in 0..MaxDbId + 1, in \in DbUpdates, read_fault \in BOOLEAN, write_fault \in BOOLEAN :
          ~Has(db_issues, n) =>
              update_issue_result(db_issues, clock, n, in.title, in.description, in.status,
                                  in.resolution, read_fault, write_fault)
                  = [issues |-> db_issues, value |-> FALSE]
    /\ (ret.op = "update_issue" /\ ~Has(db_issues, ret.id)) => ret.value = FALSE

\* update_issue has returned False for an id that is not stored, asked to
\* change fields, while another row is stored
C10_Witness ==
    /\ ret.op = "update_issue"
    /\ ret.value = FALSE
    /\ ~Has(db_issues, ret.id)
    /\ db_issues # <<>>

\* r is what a delete_issue call on issue_id leaves of the table tbl
DeletesRow(tbl, issue_id, r) ==
    /\ r.value = TRUE <=> (Has(tbl, issue_id) /\ ~Has(r.issues, issue_id))
    /\ r.value = TRUE =>
          /\ get_issue_by_id_result(r.issues, issue_id, FALSE) = NotFound
          /\ r.issues = SelectSeq(tbl, LAMBDA row : row.id # issue_id)
    /\ r.value = FALSE => r.issues = tbl

\* C12: in every reachable store, database.delete_issue(id) returns True if
\* and only if a row with that id was stored and the call removed it; after
\* True get_issue_by_id(id) returns None and the other rows are as before;
\* after False (also when the DELETE fails) the table is unchanged.
C12_DeleteIssue ==
    /\ \A n \in 0..MaxDbId + 1, fault \in BOOLEAN :
          DeletesRow(db_issues, n, db_delete_issue_result(db_issues, n, fault))
    /\ (ret.op = "database.delete_issue" /\ ret.value = TRUE) => ~Has(db_issues, ret.id)

\* database.delete_issue has returned True and the row it was asked to delete,
\* which create_issue had stored, is gone
C12_Witness ==
    /\ ret.op = "database.delete_issue"
    /\ ret.value = TRUE
    /\ db_sequence >= ret.id
    /\ ~Has(db_issues, ret.id)

(***************************************************************************)
(* database.migrate_data_to_fit_constraints: one transaction over the      *)
(* rows of a table that may predate the length constraints.                *)
(***************************************************************************)
\* the row the migration leaves in place of row
migrate_row_title_only(row) ==
    [row EXCEPT !.title = LimitTitle(row.title)]

migrate_row(row) ==
    [row EXCEPT !.title = LimitTitle(row.title),
                !.description = LimitOptional(row.description),
                !.resolution = LimitOptional(row.resolution)]

\* the table and the value after the migration; a fault rolls every UPDATE back
migrate_result(tbl, fault) ==
    [issues |-> IF fault THEN tbl ELSE [i \in 1..Len(tbl) |-> migrate_row(tbl[i])],
     value |-> ~fault]

migrate_data_to_fit_constraints(fault) ==
    DbStep("migrate_data_to_fit_constraints", 0, migrate_result(db_issues, fault))

(***************************************************************************)
(* SpecLegacy: the record store opened on a table of at most MaxLegacyRows *)
(* rows that was made before the length constraints, so its texts may be   *)
(* longer than 140; initialize_database leaves such a table as it is.      *)
(***************************************************************************)
LegacyRow(title, description, resolution) ==
    [id |-> 0, title |-> title, description |-> description, resolution |-> resolution,
     status |-> Lower(OPEN), created_at |-> 0, updated_at |-> 0]

LegacyRows ==
    {LegacyRow(T1, None, None),
     LegacyRow(Rep("x", DB_TEXT_MAX + 1), D1, None),
     LegacyRow(Rep("x", DB_TEXT_MAX), Rep("y", DB_TEXT_MAX + 1), Rep("z", DB_TEXT_MAX + 2))}

RECURSIVE LegacyTables(_)
LegacyTables(n) ==
    IF n = 0 THEN {<<>>}
    ELSE {Append(tbl, [row EXCEPT !.id = n]) : tbl \in LegacyTables(n - 1), row \in LegacyRows}

InitLegacy ==
    /\ issues = <<>>
    /\ archive_file = [exists |-> FALSE, rows |-> <<>>]
    /\ all_issues_file = [exists |-> FALSE, rows |-> <<>>]
    /\ \E n \in 1..MaxLegacyRows : db_issues \in LegacyTables(n) /\ db_sequence = n
    /\ db_checks = FALSE
    /\ db_schema = {}
    /\ db_open = 0
    /\ backups = {}
    /\ writers = NoWriters
    /\ clock = 0
    /\ ret = Returned("start", 0, FALSE)

StatusOnly ==
    [title |-> None, description |-> None, status |-> Lower(RESOLVED), resolution |-> None]

LegacyUpdates == {NoChange, StatusOnly, Resolve}

MigrateLegacy == \E fault \in BOOLEAN : migrate_data_to_fit_constraints(fault)

UpdateLegacy ==
    \E n \in 1..MaxLegacyId, in \in LegacyUpdates, read_fault \in BOOLEAN, write_fault \in BOOLEAN :
        update_issue(n, in.title, in.description, in.status, in.resolution,
                     read_fault, write_fault)

NextLegacy == MigrateLegacy \/ UpdateLegacy \/ Tick

SpecLegacy == InitLegacy /\ [][NextLegacy]_vars

\* the supplied value, or the stored one when the field is omitted
Supplied(given, stored) == IF given = None THEN stored ELSE Truncated(given)

\* r is the table tbl with the row issue_id changed in the fields in supplies
PartialUpdate(tbl, issue_id, in, now, r) ==
    /\ r.value = TRUE
    /\ Len(r.issues) = Len(tbl)
    /\ \A i \in 1..Len(tbl) :
          IF tbl[i].id = issue_id
          THEN /\ r.issues[i].id = issue_id
               /\ r.issues[i].created_at = tbl[i].created_at
               /\ r.issues[i].updated_at = now
               /\ r.issues[i].title = Supplied(in.title, tbl[i].title)
               /\ r.issues[i].description = Supplied(in.description, tbl[i].description)
               /\ r.issues[i].resolution = Supplied(in.resolution, tbl[i].resolution)
               /\ r.issues[i].status = IF in.status = None THEN tbl[i].status ELSE in.status
          ELSE r.issues[i] = tbl[i]

\* C11: partial update frame.  In every reachable store, update_issue on a
\* stored id (no storage fault) returns True, sets each supplied field of that
\* row to its truncated value and updated_at to the current time, keeps every
\* omitted field of the row at its stored value, keeps the row's id and
\* created_at, and leaves every other row unchanged.
C11_PartialUpdateFrame ==
    \A n \in 1..MaxLegacyRows, in \in LegacyUpdates :
        Has(db_issues, n) =>
            PartialUpdate(db_issues, n, in, clock,
                          update_issue_result(db_issues, clock, n, in.title, in.description,
                                              in.status, in.resolution, FALSE, FALSE))

\* the length of a stored text; NULL has none
TextLen(text) == IF text = None THEN 0 ELSE Len(text)

\* new is old with each text over 140 cut to 137 characters and "...", and
\* everything else as it was
Migrated(old, new) ==
    /\ TextLen(new.title) <= DB_TEXT_MAX
    /\ TextLen(new.description) <= DB_TEXT_MAX
    /\ TextLen(new.resolution) <= DB_TEXT_MAX
    /\ new.title = Truncated(old.title)
    /\ new.description = Truncated(old.description)
    /\ new.resolution = Truncated(old.resolution)
    /\ TextLen(old.title) <= DB_TEXT_MAX => new.title = old.title
    /\ TextLen(old.description) <= DB_TEXT_MAX => new.description = old.description
    /\ TextLen(old.resolution) <= DB_TEXT_MAX => new.resolution = old.resolution
    /\ <<new.id, new.status, new.created_at, new.updated_at>>
          = <<old.id, old.status, old.created_at, old.updated_at>>

\* r is the migration of tbl, and a second migration changes nothing
MigratesOnce(tbl, r) ==
    r.value = TRUE =>
        /\ Len(r.issues) = Len(tbl)
        /\ \A i \in 1..Len(tbl) : Migrated(tbl[i], r.issues[i])
        /\ migrate_result(r.issues, FALSE) = [issues |-> r.issues, value |-> TRUE]

\* C16: in every reachable table, made before the length constraints or not,
\* when migrate_data_to_fit_constraints returns True every title, description
\* and resolution is at most 140 long, each one that was longer is its first
\* 137 characters followed by "...", every text within the limit and every
\* other column is unchanged, and a second migration changes no row.
C16_MigrationFits ==
    /\ \A fault \in BOOLEAN : MigratesOnce(db_issues, migrate_result(db_issues, fault))
    /\ (ret.op = "migrate_data_to_fit_constraints" /\ ret.value = TRUE) =>
          \A i \in 1..Len(db_issues) :
              /\ TextLen(db_issues[i].title) <= DB_TEXT_MAX
              /\ TextLen(db_issues[i].description) <= DB_TEXT_MAX
              /\ TextLen(db_issues[i].resolution) <= DB_TEXT_MAX

\* the migration has returned True on a table of two rows: one whose title,
\* once 141 long, is cut to 137 characters and "...", and one whose
\* description and resolution are cut likewise
C16_Witness ==
    /\ ret.op = "migrate_data_to_fit_constraints"
    /\ ret.value = TRUE
    /\ Len(db_issues) = 2
    /\ db_issues[1].title = Rep("x", DB_TEXT_CUT) \o ELLIPSIS
    /\ db_issues[1].description = D1
    /\ db_issues[2].description = Rep("y", DB_TEXT_CUT) \o ELLIPSIS
    /\ db_issues[2].resolution = Rep("z", DB_TEXT_CUT) \o ELLIPSIS
    /\ db_issues[2].title = Rep("x", DB_TEXT_MAX)

(***************************************************************************)
(* SpecTxn: transaction blocks, batches and scripts of at most MaxTxnLen   *)
(* statements on the database file, up to MaxTxnId rows.                   *)
(***************************************************************************)
BatchRow(title) == [title |-> title, description |-> D1, status |-> Lower(OPEN)]

TxnStatements == {Insert(BatchRow(T1)), CreateTable("t"), CreateTable("u"), BadStatement}

TxnBlocks == Texts(TxnStatements, MaxTxnLen)

BatchRows == {BatchRow(T1), BatchRow(Rep("x", DB_TEXT_MAX + 1)), BatchRow(None)}

BatchDicts == {[title |-> T1, description |-> D1], BatchRow(T1), BatchRow(None)}

InReach(stmts) == db_sequence + Len(stmts) <= MaxTxnId

BlockTxn == \E stmts \in TxnBlocks : InReach(stmts) /\ transaction_block(stmts)

BatchTxn == \E rows \in Texts(BatchRows, MaxTxnLen) : InReach(rows) /\ execute_batch(rows)

CreateBatchTxn ==
    \E batch \in Texts(BatchDicts, MaxTxnLen) : InReach(batch) /\ create_issues_batch(batch)

ScriptTxn == \E script \in TxnBlocks : InReach(script) /\ execute_script(script)

NextTxn == BlockTxn \/ BatchTxn \/ CreateBatchTxn \/ ScriptTxn

SpecTxn == Init /\ [][NextTxn]_vars

\* the database with every statement of stmts in effect
RECURSIVE AllApplied(_, _, _)
AllApplied(db, stmts, now) ==
    IF stmts = <<>> THEN db ELSE AllApplied(Applied(Head(stmts), db, now), Tail(stmts), now)

\* r is all of stmts in effect and no error, or none of them and the error
AllOrNothing(db, stmts, now, r) ==
    IF r.value THEN r.db = AllApplied(db, stmts, now) ELSE r.db = db

\* C13: transaction scope.  In every reachable database, for every block of
\* statements, a transaction() block that exits normally leaves every one of
\* its writes on file, and a block in which a statement raises leaves the
\* file as it was before the block.
C13_TransactionScope ==
    \A stmts \in TxnBlocks :
        AllOrNothing(DbFile, stmts, clock, transaction(DbFile, stmts, db_checks, clock))

\* the INSERT statements of a batch
Inserts(params_list) == [i \in 1..Len(params_list) |-> Insert(params_list[i])]

\* C14: in every reachable database, for every parameter list, execute_batch
\* and create_issues_batch either insert every row of the list and return
\* True, or return False and leave the table as it was, wherever in the list
\* the failing row is.
C14_BatchAtomic ==
    /\ \A rows \in Texts(BatchRows, MaxTxnLen) :
          AllOrNothing(DbFile, Inserts(rows), clock,
                       execute_batch_result(DbFile, rows, db_checks, clock))
    /\ \A batch \in Texts(BatchDicts, MaxTxnLen) :
          AllOrNothing(DbFile, Inserts(batch_params(batch)), clock,
                       create_issues_batch_result(DbFile, batch, db_checks, clock))

\* execute_batch has returned False after a row that is not the first failed,
\* on a table that is still empty
C14_Witness ==
    /\ ret.op = "execute_batch"
    /\ ret.value = FALSE
    /\ ret.id >= 1
    /\ db_issues = <<>>

\* C15: in every reachable database, for every script, execute_script either
\* leaves every statement of the script in effect and returns True, or
\* returns False and leaves the database as it was before the call, also
\* when the failing statement is not the first.
C15_ScriptAtomic ==
    \A script \in TxnBlocks :
        AllOrNothing(DbFile, script, clock,
                     execute_script_result(DbFile, script, db_checks, clock))

(***************************************************************************)
(* SpecSearch: searches of a record store of at most MaxSearchId issues,   *)
(* created at different times, with and without the full-text index.       *)
(***************************************************************************)
SearchRecords ==
    {[title |-> <<"A", "r">>, description |-> None],
     [title |-> <<"_">>, description |-> <<"a", "r">>],
     [title |-> <<"c">>, description |-> <<>>]}

SearchTerms == {<<"a">>, <<"A", "R">>, <<"c">>, <<"_">>, <<"%">>, <<>>}

CreateSearch ==
    \E in \in SearchRecords :
        db_sequence < MaxSearchId /\ create_issue(in.title, in.description, Lower(OPEN), None, FALSE)

SearchSearch == \E keyword \in SearchTerms, fault \in BOOLEAN : search_issues(keyword, fault)

EnableSearch == \E fault \in BOOLEAN : enable_full_text_search(fault)

FullTextSearch == \E term \in SearchTerms, fault \in BOOLEAN : full_text_search(term, fault)

NextSearch == CreateSearch \/ SearchSearch \/ EnableSearch \/ FullTextSearch \/ Tick

SpecSearch == Init /\ [][NextSearch]_vars

\* C17: in every reachable store, whenever the full-text query fails in the
\* engine (the issues_fts index does not exist, the term is no query, or the
\* engine faults), full_text_search(term) returns what search_issues(term)
\* returns.
C17_FullTextFallback ==
    \A term \in SearchTerms, fault \in BOOLEAN :
        FtsQueryFails(db_schema, term, fault) =>
            full_text_search_results(db_issues, db_schema, term, fault)
                = search_issues_results(db_issues, term, FALSE)

\* keyword is a substring of text when case is ignored; None contains nothing
Contains(text, keyword) ==
    /\ text # None
    /\ \E i \in 0..Len(text) - Len(keyword) :
          Lower(SubSeq(text, i + 1, i + Len(keyword))) = Lower(keyword)

\* result is exactly the rows of tbl that contain keyword, newest first
ExactlyContaining(tbl, keyword, result) ==
    /\ \A i \in 1..Len(result) :
          Contains(result[i].title, keyword) \/ Contains(result[i].description, keyword)
    /\ \A row \in RowSet(tbl) :
          (Contains(row.title, keyword) \/ Contains(row.description, keyword))
              => \E i \in 1..Len(result) : result[i] = row
    /\ \A i, j \in 1..Len(result) : i < j => result[i].created_at >= result[j].created_at

\* C18: in every reachable store, for every keyword, search_issues(keyword)
\* returns exactly the stored issues whose title or description contains the
\* keyword as a case-insensitive substring, ordered newest-created first.
C18_SearchExact ==
    \A keyword \in SearchTerms :
        \A result \in search_issues_results(db_issues, keyword, FALSE) :
            ExactlyContaining(db_issues, keyword, result)

(***************************************************************************)
(* SpecStats: statistics of a record store of at most MaxStatsId issues,   *)
(* open, closed or resolved, with each step of the statistics failing.     *)
(***************************************************************************)
CreateStats ==
    \E status \in {Lower(OPEN), CLOSED, Lower(RESOLVED)} :
        db_sequence < MaxStatsId /\ create_issue(T1, None, status, None, FALSE)

DeleteStats == \E n \in 1..MaxStatsId : db_delete_issue(n, FALSE)

StatsStats == \E failing_step \in 0..STATS_STEPS : get_database_stats(failing_step)

NextStats == CreateStats \/ DeleteStats \/ StatsStats

SpecStats == Init /\ [][NextStats]_vars

ZeroStats == [total_issues |-> 0, open_issues |-> 0, closed_issues |-> 0, database_size_kb |-> 0]

\* C19: in every reachable store, whichever step of get_database_stats
\* fails, the call returns the zeroed default structure.
C19_StatsZeroOnFailure ==
    \A failing_step \in 1..STATS_STEPS, size_kb \in FileSizesKb :
        stats_after(db_issues, size_kb, failing_step) = ZeroStats

(***************************************************************************)
(* SpecExport: exports of a store of at most MaxExportRows issues, and of  *)
(* lists of at most MaxLoaded loaded issues in which an id may repeat (as  *)
(* when Issue.load_all is replaced).                                       *)
(***************************************************************************)
AddExport == NextRowid(issues) <= MaxExportRows /\ add_issue(T1, D1, <<>>, Y)

DeleteExport == \E i \in TypedIds(MaxExportRows) : delete_issue(i, Y)

ExportAll == export_all_issues(load_all(issues))

ExportLoaded ==
    \E loaded \in Texts({load_all(issues)[i] : i \in 1..Len(issues)}, MaxLoaded) :
        export_all_issues(loaded)

NextExport == AddExport \/ DeleteExport \/ ExportAll \/ ExportLoaded

SpecExport == Init /\ [][NextExport]_vars

IdsOf(list) == {list[i].id : i \in 1..Len(list)}

\* the data rows of file are one row for each id of loaded
OneRowPerId(file, loaded) ==
    /\ file.exists
    /\ Len(DataRows(file)) = Cardinality(IdsOf(loaded))
    /\ \A i, j \in 1..Len(DataRows(file)) :
          i # j => DataRows(file)[i].issue.id # DataRows(file)[j].issue.id
    /\ \A i \in 1..Len(DataRows(file)) : DataRows(file)[i].issue.id \in IdsOf(loaded)

\* C20: duplicate-safe export.  After every export_all_issues call, on the
\* stored issues or on a list in which an id repeats, the file written holds
\* as many data rows as there are distinct ids among the loaded issues, and
\* no id in two rows; so does the file any such call would write now.
C20_ExportDistinctIds ==
    /\ ret.op = "export_all_issues" => OneRowPerId(all_issues_file, ret.loaded)
    /\ \A loaded \in Texts({load_all(issues)[i] : i \in 1..Len(issues)}, MaxLoaded) :
          OneRowPerId(export_all_issues_result(all_issues_file, loaded).file, loaded)

\* export_all_issues has written two data rows for a list of three loaded
\* issues in which one id comes twice
C20_Witness ==
    /\ ret.op = "export_all_issues"
    /\ Len(ret.loaded) = 3
    /\ Cardinality(IdsOf(ret.loaded)) = 2
    /\ Len(DataRows(all_issues_file)) = 2

\* C21: in every reachable store, also one with no issue, export_all_issues
\* (the call main makes on choice 9) returns rather than raises, and
\* database.export_to_csv returns True or False and does not raise.
C21_ExportNeverRaises ==
    /\ export_all_issues_result(all_issues_file, load_all(issues)).value = TRUE
    /\ ret.op = "export_all_issues" => ret.value = TRUE
    /\ \A read_fault \in BOOLEAN, write_fault \in BOOLEAN :
          ~db_export_to_csv(db_issues, read_fault, write_fault).raised

(***************************************************************************)
(* SpecBackup: backups and restores of a record store of at most           *)
(* MaxBackupId issues that are created, updated and deleted in between.    *)
(***************************************************************************)
CreateBackup ==
    db_sequence < MaxBackupId /\ create_issue(T1, None, Lower(OPEN), None, FALSE)

UpdateBackup ==
    \E n \in 1..MaxBackupId : update_issue(n, None, None, Lower(RESOLVED), None, FALSE, FALSE)

DeleteBackup == \E n \in 1..MaxBackupId : db_delete_issue(n, FALSE)

BackupBackup == create_backup

RestoreBackup == \E path \in 0..MaxClock : restore_from_backup(path)

NextBackup == CreateBackup \/ UpdateBackup \/ DeleteBackup \/ BackupBackup \/ RestoreBackup

SpecBackup == Init /\ [][NextBackup]_vars

\* C22: backup/restore round trip.  In every step: create_backup stores under
\* the path it returns a copy of the database file as it is; create_issue,
\* update_issue and delete_issue change no backup; restore_from_backup of a
\* path that holds a backup returns True and leaves exactly the records (and
\* the id counter) of that copy in the live store; restore_from_backup of a
\* path that holds none returns False and leaves the live store unchanged.
C22_BackupRestoreRoundTrip ==
    [][/\ ret'.op = "create_backup" =>
             /\ HasBackup(backups', ret'.value)
             /\ BackupAt(backups', ret'.value).file = WholeFile
       /\ ret'.op \in {"create_issue", "update_issue", "database.delete_issue"} =>
             backups' = backups
       /\ ret'.op = "restore_from_backup" =>
             /\ backups' = backups
             /\ IF HasBackup(backups, ret'.id)
                THEN /\ ret'.value = TRUE
                     /\ db_issues' = BackupAt(backups, ret'.id).file.db.issues
                     /\ db_sequence' = BackupAt(backups, ret'.id).file.db.sequence
                ELSE /\ ret'.value = FALSE
                     /\ <<db_issues', db_sequence'>> = <<db_issues, db_sequence>>
      ]_vars

\* restore_from_backup has returned True and put back a backup of two Open
\* issues over a store that had been changed since the backup
C22_Witness ==
    /\ ret.op = "restore_from_backup"
    /\ ret.value = TRUE
    /\ ret.replaced
    /\ Len(db_issues) = 2
    /\ \A i \in 1..Len(db_issues) : db_issues[i].status = Lower(OPEN)

\* the notes an operator leaves empty: nothing typed, or only blanks
EmptyNotes == {<<>>, <<" ">>}

\* C23: resolution on resolve.  Every stored issue whose status is Resolved
\* has a resolution that is neither null nor empty; and an edit_issue call that
\* changes the status of a stored issue to Resolved with an empty note,
\* confirmed with y, returns True and stores the placeholder "None".
C23_ResolutionOnResolve ==
    /\ \A i \in 1..Len(issues) :
          issues[i].status = RESOLVED => Truthy(issues[i].resolution)
    /\ \A i \in 1..Len(issues), note \in EmptyNotes :
          issues[i].status \in {OPEN, IN_PROGRESS} =>
              \A r \in {edit_issue_result(issues, clock, TypedId(issues[i].id), <<>>, <<>>,
                                          <<>>, <<"r">>, note, Y)} :
                  /\ r.value = TRUE
                  /\ StatusOf(r.issues, issues[i].id) = RESOLVED
                  /\ RowOf(r.issues, issues[i].id).resolution = NONE_TEXT

\* edit_issue has just resolved an issue with no note typed: "None" is stored
C23_Witness ==
    /\ ret.op = "edit_issue"
    /\ ret.value = TRUE
    /\ StatusOf(issues, ret.id) = RESOLVED
    /\ RowOf(issues, ret.id).resolution = NONE_TEXT

\* C24: storage-engine faults become failure sentinels.  In every reachable
\* record store, when the engine fails on the write of the operation,
\* create_issue returns -1, database.delete_issue returns False and update_issue
\* of a stored id returns False, each leaving the store unchanged.
C24_FaultSentinels ==
    /\ \A in \in DbCreates :
          \A r \in {create_issue_result(db_issues, db_sequence, clock, in.title,
                                        in.description, in.status, in.resolution, TRUE)} :
              r.value = -1 /\ r.issues = db_issues
    /\ \A n \in 1..MaxDbId :
          \A r \in {db_delete_issue_result(db_issues, n, TRUE)} :
              r.value = FALSE /\ r.issues = db_issues
    /\ \A n \in 1..MaxDbId, in \in DbUpdates :
          \A r \in {update_issue_result(db_issues, clock, n, in.title, in.description,
                                        in.status, in.resolution, FALSE, TRUE)} :
              r.value = FALSE /\ r.issues = db_issues

(***************************************************************************)
(* SpecConnections: record-store operations whose connection setup or      *)
(* statement may fail, and the connections they leave behind.              *)
(***************************************************************************)
CreateConnections ==
    \E in \in DbCreates, fault \in BOOLEAN :
        db_sequence < MaxDbId /\ create_issue(in.title, in.description, in.status, in.resolution, fault)

DeleteConnections == \E n \in 1..MaxDbId, fault \in BOOLEAN : db_delete_issue(n, fault)

QueryConnections ==
    \E connect_fault \in BOOLEAN, query_fault \in BOOLEAN, finalized \in BOOLEAN :
        get_all_issues(connect_fault, query_fault, finalized)

OptimizeConnections ==
    \E connect_fault \in BOOLEAN, vacuum_fault \in BOOLEAN, finalized \in BOOLEAN :
        optimize_database(connect_fault, vacuum_fault, finalized)

InfoConnections ==
    \E connect_fault \in BOOLEAN, pragma_fault \in BOOLEAN, finalized \in BOOLEAN :
        get_connection_info(connect_fault, pragma_fault, finalized)

FinalizeConnections == finalize_connections

NextConnections ==
    \/ CreateConnections
    \/ DeleteConnections
    \/ QueryConnections
    \/ OptimizeConnections
    \/ InfoConnections
    \/ FinalizeConnections
    \/ Tick

SpecConnections == Init /\ [][NextConnections]_vars

\* C25: connection release on every exit path.  Between operations no
\* connection to the database file is open, whichever operation returned or
\* failed before.
C25_ConnectionsReleased == db_open = 0

\* the table of initialize_database (AUTOINCREMENT): create_issue hands out an
\* id above every id handed out before, which db_sequence remembers
DbIdsIncrease ==
    [][(ret'.op = "create_issue" /\ ret'.value # -1 /\ db_sequence' # db_sequence) =>
           /\ ret'.value > db_sequence
           /\ db_sequence' = ret'.value
           /\ \A i \in 1..Len(db_issues) : db_issues[i].id < ret'.value
      ]_vars

\* C26: ids are never handed out twice.  In the table of create_table, written
\* by Issue.save: an add_issue that stores an issue gives it an id above every
\* stored id, and when it follows a delete_issue that removed an issue, an id
\* other than (above) the removed one.
C26_IdsNeverReused ==
    [][(ret'.op = "add_issue" /\ ret'.value = TRUE /\ issues' # issues) =>
           /\ \A i \in 1..Len(issues) : issues[i].id < ret'.id
           /\ (ret.op = "delete_issue" /\ ret.value = TRUE) => ret'.id > ret.id
      ]_vars

(***************************************************************************)
(* SpecRace: two writers, each running update_issue once on a stored       *)
(* issue.  The first supplies a title only, the second a status only.      *)
(***************************************************************************)
FIRST == "first"
SECOND == "second"

TitleOnly(title) == [title |-> title, description |-> None, status |-> None, resolution |-> None]

StatusTo(status) == [title |-> None, description |-> None, status |-> status, resolution |-> None]

RaceCalls(writer) ==
    IF writer = FIRST THEN {TitleOnly(<<"a">>), TitleOnly(<<"b">>)}
    ELSE {StatusTo(Lower(IN_PROGRESS)), StatusTo(Lower(RESOLVED))}

CreateRace ==
    db_sequence < MaxRaceId /\ create_issue(T1, None, Lower(OPEN), None, FALSE)

ReadRace ==
    \E writer \in {FIRST, SECOND}, n \in 1..MaxRaceId :
        \E in \in RaceCalls(writer) : update_read(writer, n, in)

WriteRace == \E call \in writers.pending : update_write(call)

NextRace == CreateRace \/ ReadRace \/ WriteRace \/ Tick

SpecRace == Init /\ [][NextRace]_vars

\* every call wrote before the next one read
Sequential(log) ==
    \A k \in 1..Len(log) :
        log[k].step = "read" =>
            k < Len(log) /\ log[k + 1].step = "write" /\ log[k + 1].writer = log[k].writer

\* both writers have run update_issue on the issue and both calls returned True
BothWrote(log, issue_id) ==
    /\ Len(log) = 4
    /\ \A k \in 1..4 : log[k].value = TRUE /\ log[k].issue_id = issue_id

\* what the writer supplied
SuppliedBy(log, writer) == log[CHOOSE k \in 1..Len(log) : log[k].writer = writer].in

\* C27 (sequential half): when the two update_issue calls on an issue run one
\* after the other and both return True, the title the first writer supplied
\* and the status the second writer supplied are both stored afterwards.
C27_SequentialKeepsBoth ==
    \A n \in 1..MaxRaceId :
        (BothWrote(writers.log, n) /\ Sequential(writers.log)) =>
            /\ RowOf(db_issues, n).title = SuppliedBy(writers.log, FIRST).title
            /\ RowOf(db_issues, n).status = SuppliedBy(writers.log, SECOND).status

\* C27 (interleaved half): the second writer read the row before the first
\* wrote and wrote after it; both calls returned True, and the stored title is
\* the stale one the second writer read, not the one the first writer wrote
C27_Witness ==
    /\ BothWrote(writers.log, 1)
    /\ ~Sequential(writers.log)
    /\ writers.log[3].writer = FIRST /\ writers.log[3].step = "write"
    /\ writers.log[4].writer = SECOND /\ writers.log[4].step = "write"
    /\ RowOf(db_issues, 1).title = T1
    /\ RowOf(db_issues, 1).title # SuppliedBy(writers.log, FIRST).title
    /\ RowOf(db_issues, 1).status = SuppliedBy(writers.log, SECOND).status

(***************************************************************************)
(* SpecArchive: appending exports to an archive file that is at first      *)
(* absent, empty, or already holds the header and one issue.  Every call   *)
(* hands over at least one issue, as archive_issue does.                   *)
(***************************************************************************)
ArchivedIssue(n) == [NewIssue(T1, D1, ARCHIVED, NONE_TEXT, <<>>, 0) EXCEPT !.id = n]

ArchivedIssues == {ArchivedIssue(n) : n \in 1..MaxAppend}

ArchiveFiles ==
    {[exists |-> FALSE, rows |-> <<>>],
     [exists |-> TRUE, rows |-> <<>>],
     [exists |-> TRUE, rows |-> <<HEADER, DataRow(ArchivedIssue(1))>>]}

InitArchive ==
    /\ issues = <<>>
    /\ archive_file \in ArchiveFiles
    /\ all_issues_file = [exists |-> FALSE, rows |-> <<>>]
    /\ db_issues = <<>>
    /\ db_sequence = 0
    /\ db_checks = TRUE
    /\ db_schema = {}
    /\ db_open = 0
    /\ backups = {}
    /\ writers = NoWriters
    /\ clock = 0
    /\ ret = Returned("start", 0, FALSE)

AppendArchive ==
    \E data \in Texts(ArchivedIssues, MaxAppend) \ {<<>>} :
        /\ Len(archive_file.rows) + Len(data) + 1 <= MaxArchiveRows
        /\ append_to_archive(data)

NextArchive == AppendArchive

SpecArchive == InitArchive /\ [][NextArchive]_vars

\* the file starts with the header row and holds no other header row
OneHeaderFirst(file) ==
    /\ file.rows # <<>>
    /\ file.rows[1] = HEADER
    /\ \A k \in 2..Len(file.rows) : file.rows[k].kind = "data"

\* C28: the archive log is append-only.  In every appending export_to_csv call
\* that hands over at least one issue, whether the file was absent, empty or
\* populated at first: the lines the file held before the call are the first
\* lines it holds after it, the issues handed over are its last lines, and it
\* holds exactly one header row, as its first line.
C28_ArchiveAppendOnly ==
    [][ret'.op = "export_to_csv" =>
           /\ archive_file'.exists
           /\ Len(archive_file'.rows) >= Len(archive_file.rows) + ret'.value
           /\ SubSeq(archive_file'.rows, 1, Len(archive_file.rows)) = archive_file.rows
           /\ Len(DataRows(archive_file')) = Len(DataRows(archive_file)) + ret'.value
           /\ OneHeaderFirst(archive_file')
      ]_vars

\* an appending export has added to a file that already held three issues
C28_Witness ==
    /\ ret.op = "export_to_csv"
    /\ ret.value = 1
    /\ Len(DataRows(archive_file)) = 4
    /\ OneHeaderFirst(archive_file)

\* the answers, of those the operator may type, that are not y once stripped
\* and lower-cased
Declines == {c \in Confirms : Lower(Strip(c)) # Y}

\* C29: cancellation leaves the store unchanged.  In every reachable store,
\* an add_issue, edit_issue, archive_issue or delete_issue call whose
\* confirmation answer is not y returns False, leaves every row of the store as
\* it is and appends nothing to the archive file, whatever is entered before
\* the confirmation.
C29_CancelChangesNothing ==
    \A c \in Declines :
        /\ \A t \in {<<>>, T1}, d \in {<<>>, D1}, tags \in {<<>>, T1} :
              \A r \in {add_issue_result(issues, clock, t, d, tags, c)} :
                  r.value = FALSE /\ r.issues = issues
        /\ \A i \in TypedIds(MaxRows), s \in AllStatusKeys, t \in {<<>>, T1} :
              \A r \in {edit_issue_result(issues, clock, i, t, t, t, s, t, c)} :
                  r.value = FALSE /\ r.issues = issues
        /\ \A i \in TypedIds(MaxRows) :
              \A r \in {archive_issue_result(issues, archive_file, clock, i, c)} :
                  r.value = FALSE /\ r.issues = issues /\ r.archive_file = archive_file
        /\ \A i \in TypedIds(MaxRows) :
              \A r \in {delete_issue_result(issues, i, c)} :
                  r.value = FALSE /\ r.issues = issues

\* delete_issue on a stored Open issue has returned False, which only a
\* declined confirmation makes it do; the issue is still stored
C29_Witness ==
    /\ ret.op = "delete_issue"
    /\ ret.value = FALSE
    /\ StatusOf(issues, ret.id) = OPEN

\* the ids of the stored issues whose status is Archived
ArchivedIds(tbl) == {tbl[i].id : i \in {k \in 1..Len(tbl) : tbl[k].status = ARCHIVED}}

\* C30: the archive log matches the store.  The ids of the data rows of the
\* archive file are exactly the ids of the stored issues whose status is
\* Archived, and no id has two data rows.
C30_ArchiveMatchesStore ==
    \A rows \in {DataRows(archive_file)} :
        /\ {rows[k].issue.id : k \in 1..Len(rows)} = ArchivedIds(issues)
        /\ \A j \in 1..Len(rows), k \in 1..Len(rows) :
              rows[j].issue.id = rows[k].issue.id => j = k
====
